---- MODULE Spec2Model ----
(***************************************************************************)
(* A model of CSV.mjs (CSV.parse / CSV.stringify).                         *)
(*                                                                         *)
(* A JavaScript string is a sequence of characters; a character is a TLA+  *)
(* string naming one code point ("a", ",", "\n", ...).  The JavaScript     *)
(* value undefined is the one-element sequence Undefined, which is no      *)
(* string over any alphabet used here.                                     *)
(***************************************************************************)
EXTENDS Integers, Sequences, FiniteSets, TLC

VARIABLES
  pc,          \* position in the call under way
  text,        \* the csv argument of parse, as given by the caller
  options,     \* the options argument of parse
  csv,         \* the preprocessed text handed to Array.from(csv).reduce
  index,       \* number of characters the reducer has processed
  aggregator,  \* the accumulator of the reduce call
  step,        \* observation of the last tokenizeCells call
  result,      \* the value returned by parse
  given,       \* the rows stringify was called with, as they were at the call
  table,       \* the object argument of stringify, as the call leaves it
  soptions,    \* the options argument of stringify
  out,         \* the value returned by stringify
  out2,        \* the value returned by stringify applied to parse's result
  cell,        \* the argument of quoteString / parseString in a cell run
  cellOut,     \* the values returned in a cell run
  emitted      \* the rows a stringify call of a table turned into lines

vars == <<pc, text, options, csv, index, aggregator, step, result,
          given, table, soptions, out, out2, cell, cellOut, emitted>>

----------------------------------------------------------------------------
(* Characters *)

LF == "\n"
CR == "\r"
NUL == "NUL"          \* U+0000
space == " "
DQ == "\""
Comma == ","
Semi == ";"
Apos == "'"

Undefined == <<"undefined">>
\* undefined where a row, an array of rows or an array of mapped rows is
\* expected (no row holds the cell Undefined)
UndefinedRow == <<Undefined>>
UndefinedRows == <<UndefinedRow>>
UndefinedMaps == << << [key |-> Undefined, value |-> Undefined] >> >>
UndefinedKey == <<"u", "n", "d", "e", "f", "i", "n", "e", "d">>
NoValue == <<"none">>   \* a variable that holds nothing yet

----------------------------------------------------------------------------
(* Sequence helpers *)

Last(s) == s[Len(s)]
Front(s) == SubSeq(s, 1, Len(s) - 1)
Includes(s, x) == \E i \in 1..Len(s) : s[i] = x
Max(a, b) == IF a >= b THEN a ELSE b

RECURSIVE SeqsUpTo(_, _)
SeqsUpTo(S, n) ==
  IF n = 0 THEN { <<>> }
  ELSE LET shorter == SeqsUpTo(S, n - 1)
       IN  shorter \cup { Append(s, x) : s \in { t \in shorter : Len(t) = n - 1 }, x \in S }

RECURSIVE Join(_, _)
Join(strings, sep) ==
  IF strings = <<>> THEN <<>>
  ELSE IF Len(strings) = 1 THEN strings[1]
       ELSE strings[1] \o sep \o Join(Tail(strings), sep)

\* String.prototype.replaceAll(c, r) for a one-character pattern c.
RECURSIVE ReplaceAll(_, _, _)
ReplaceAll(s, c, r) ==
  IF s = <<>> THEN <<>>
  ELSE (IF Head(s) = c THEN r ELSE <<Head(s)>>) \o ReplaceAll(Tail(s), c, r)

----------------------------------------------------------------------------
(* src/CSV.mjs 5-23: option validation and line break groups *)

\* An option value: a string (its characters), an array (its elements) or
\* anything else.
StringValue(s) == [type |-> "string", string |-> s, array |-> <<>>]
ArrayValue(a) == [type |-> "array", string |-> <<>>, array |-> a]
OtherValue == [type |-> "other", string |-> <<>>, array |-> <<>>]

maxSingleChar(element) == element # Undefined /\ Len(element) <= 1

toCharArray(object) ==
  IF object.type = "string"
    THEN [i \in 1..Len(object.string) |-> <<object.string[i]>>]
  ELSE IF object.type = "array"
    THEN SelectSeq(object.array, maxSingleChar)
  ELSE <<>>

\* validQuotesAndSeparators that lets line feeds and carriage returns through
validQuotesAndSeparatorsLoose(character) == character # <<>>

validQuotesAndSeparators(character) ==
  character # <<>> /\ character # <<LF>> /\ character # <<CR>>

\* csv.replace(/\r\n|\r/g, "\n"): one pass, leftmost match first.
RECURSIVE strictLinebreakGroups(_)
strictLinebreakGroups(s) ==
  IF s = <<>> THEN <<>>
  ELSE IF Len(s) >= 2 /\ s[1] = CR /\ s[2] = LF
    THEN <<LF>> \o strictLinebreakGroups(SubSeq(s, 3, Len(s)))
  ELSE IF s[1] = CR
    THEN <<LF>> \o strictLinebreakGroups(Tail(s))
  ELSE <<s[1]>> \o strictLinebreakGroups(Tail(s))

\* looseLinebreakGroups trying the lone carriage return before the pairs
RECURSIVE looseLinebreakGroupsLoneFirst(_)
looseLinebreakGroupsLoneFirst(s) ==
  IF s = <<>> THEN <<>>
  ELSE IF s[1] = CR
    THEN <<LF>> \o looseLinebreakGroupsLoneFirst(Tail(s))
  ELSE IF Len(s) >= 2 /\ s[1] = LF /\ s[2] = CR
    THEN <<LF>> \o looseLinebreakGroupsLoneFirst(SubSeq(s, 3, Len(s)))
  ELSE <<s[1]>> \o looseLinebreakGroupsLoneFirst(Tail(s))

\* csv.replace(/\r\n|\n\r|\r/g, "\n"): one pass, leftmost match first.
RECURSIVE looseLinebreakGroups(_)
looseLinebreakGroups(s) ==
  IF s = <<>> THEN <<>>
  ELSE IF Len(s) >= 2 /\ s[1] = CR /\ s[2] = LF
    THEN <<LF>> \o looseLinebreakGroups(SubSeq(s, 3, Len(s)))
  ELSE IF Len(s) >= 2 /\ s[1] = LF /\ s[2] = CR
    THEN <<LF>> \o looseLinebreakGroups(SubSeq(s, 3, Len(s)))
  ELSE IF s[1] = CR
    THEN <<LF>> \o looseLinebreakGroups(Tail(s))
  ELSE <<s[1]>> \o looseLinebreakGroups(Tail(s))

----------------------------------------------------------------------------
(* src/CSV.mjs 24-98: reduceClass and transition *)

\* reduceClass that lets space win over quote and separator
reduceClassKeepingSpace(characterClasses) ==
  IF Len(characterClasses) = 1 THEN characterClasses[1]
  ELSE IF Includes(characterClasses, "space") THEN "space"
  ELSE "quoteSeparator"

\* reduceClass that takes the first class found
reduceClassFirst(characterClasses) == characterClasses[1]

reduceClass(characterClasses) ==
  IF Len(characterClasses) = 1 THEN characterClasses[1]
  ELSE IF Includes(characterClasses, "space")
          /\ Includes(characterClasses, "quote")
          /\ ~Includes(characterClasses, "separator")
    THEN "quote"
  ELSE IF Includes(characterClasses, "space")
          /\ ~Includes(characterClasses, "quote")
          /\ Includes(characterClasses, "separator")
    THEN "separator"
  ELSE IF Includes(characterClasses, "quote") /\ Includes(characterClasses, "separator")
    THEN "quoteSeparator"
  ELSE "undefined"

states ==
  [ closed |->
      [ linefeed |-> "finished", other |-> "open", quote |-> "closed",
        quoteSeparator |-> "finished", separator |-> "finished", space |-> "closed" ],
    open |->
      [ linefeed |-> "open", other |-> "open", quote |-> "waiting",
        quoteSeparator |-> "waiting", separator |-> "open", space |-> "open" ],
    unquoted |->
      [ linefeed |-> "finished", other |-> "unquoted", quote |-> "unquoted",
        quoteSeparator |-> "finished", separator |-> "finished", space |-> "unquoted" ],
    unsettled |->
      [ linefeed |-> "finished", other |-> "unquoted", quote |-> "open",
        quoteSeparator |-> "open", separator |-> "finished", space |-> "unsettled" ],
    waiting |->
      [ linefeed |-> "finished", other |-> "open", quote |-> "open",
        quoteSeparator |-> "open", separator |-> "finished", space |-> "closed" ] ]

\* states[parserState][reducedClass]: reading a property of undefined throws
\* a TypeError, reading a missing property yields undefined.
Lookup(parserState, reducedClass) ==
  IF parserState \notin DOMAIN states THEN "TypeError"
  ELSE IF reducedClass \notin DOMAIN states[parserState] THEN "undefined"
  ELSE states[parserState][reducedClass]

\* transition that ends the cell on any other character after a closing quote
transitionFinishingOnOther(parserState, reducedClass) ==
  IF parserState = "waiting" /\ reducedClass = "other" THEN "finished"
  ELSE IF parserState = "empty"
    THEN IF reducedClass = "linefeed" THEN "discarded"
         ELSE Lookup("unsettled", reducedClass)
  ELSE Lookup(parserState, reducedClass)

\* transition that stays in the unquoted state on a line feed
transitionKeepingUnquoted(parserState, reducedClass) ==
  IF parserState = "unquoted" /\ reducedClass = "linefeed" THEN "unquoted"
  ELSE IF parserState = "empty"
    THEN IF reducedClass = "linefeed" THEN "discarded"
         ELSE Lookup("unsettled", reducedClass)
  ELSE Lookup(parserState, reducedClass)

\* transition that discards on a line feed in the unquoted state as well
transitionDiscardingUnquoted(parserState, reducedClass) ==
  IF parserState \in {"empty", "unquoted"} /\ reducedClass = "linefeed" THEN "discarded"
  ELSE Lookup(IF parserState = "empty" THEN "unsettled" ELSE parserState, reducedClass)

\* transition without the special case of the empty state on a line feed
transitionEmptyAsUnsettled(parserState, reducedClass) ==
  Lookup(IF parserState = "empty" THEN "unsettled" ELSE parserState, reducedClass)

transition(parserState, reducedClass) ==
  IF parserState = "empty"
    THEN IF reducedClass = "linefeed" THEN "discarded"
         ELSE Lookup("unsettled", reducedClass)
  ELSE Lookup(parserState, reducedClass)

----------------------------------------------------------------------------
(* src/CSV.mjs 120-152: parseString and parseSubArrays *)

IsSpace(c) == c = space

RECURSIVE LeadingSpaces(_)
LeadingSpaces(s) ==
  IF s # <<>> /\ Head(s) = space THEN 1 + LeadingSpaces(Tail(s)) ELSE 0

RECURSIVE TrailingSpaces(_)
TrailingSpaces(s) ==
  IF s # <<>> /\ Last(s) = space THEN 1 + TrailingSpaces(Front(s)) ELSE 0

\* string.replace(/(q)\1/g, "$1"): every non-overlapping pair qq, found left
\* to right, becomes one q.  The empty pattern matches only empty strings.
\* no un-escaping at all
escapedQuotesKept(s, quote) == s

RECURSIVE escapedQuotes(_, _)
escapedQuotes(s, quote) ==
  IF quote = <<>> \/ s = <<>> THEN s
  ELSE IF Len(s) >= 2 /\ s[1] = quote[1] /\ s[2] = quote[1]
    THEN <<quote[1]>> \o escapedQuotes(SubSeq(s, 3, Len(s)), quote)
  ELSE <<s[1]>> \o escapedQuotes(Tail(s), quote)

\* /^ *q([\s\S]*)q( *)$/.test(string).  With q empty the pattern is
\* /^ *([\s\S]*)( *)$/, which every string matches.
surroundedQuotesTest(string, quote) ==
  IF quote = <<>> THEN TRUE
  ELSE LET i == LeadingSpaces(string) + 1
           j == Len(string) - TrailingSpaces(string)
       IN  /\ i < j
           /\ string[i] = quote[1]
           /\ string[j] = quote[1]

\* surroundedQuotesReplace that always keeps the spaces after the closing quote
surroundedQuotesReplaceKeeping(string, quote, ignoreSpacesAfterQuotedString) ==
  IF quote = <<>> THEN SubSeq(string, LeadingSpaces(string) + 1, Len(string))
  ELSE LET i == LeadingSpaces(string) + 1
           j == Len(string) - TrailingSpaces(string)
       IN  SubSeq(string, i + 1, j - 1) \o SubSeq(string, j + 1, Len(string))

\* string.replace(surroundedQuotes, "$1" + (ignoreSpacesAfterQuotedString ? "" : "$2"))
\* for a string the pattern matches; both groups are greedy from the left,
\* so with q empty group 2 is always empty.
surroundedQuotesReplace(string, quote, ignoreSpacesAfterQuotedString) ==
  IF quote = <<>> THEN SubSeq(string, LeadingSpaces(string) + 1, Len(string))
  ELSE LET i == LeadingSpaces(string) + 1
           j == Len(string) - TrailingSpaces(string)
       IN  SubSeq(string, i + 1, j - 1)
             \o (IF ignoreSpacesAfterQuotedString THEN <<>>
                 ELSE SubSeq(string, j + 1, Len(string)))

\* /^ ([\s\S]*) $/
spaceQuotesTest(string) ==
  Len(string) >= 2 /\ string[1] = space /\ Last(string) = space

spaceQuotesReplace(string) == SubSeq(string, 2, Len(string) - 1)

\* parseString that un-escapes the cells matching neither pattern as well
parseStringUnescapingAll(string, quote, ignoreSpacesAfterQuotedString) ==
  IF quote # <<space>> /\ surroundedQuotesTest(string, quote)
    THEN escapedQuotes(
           surroundedQuotesReplace(string, quote, ignoreSpacesAfterQuotedString), quote)
  ELSE IF quote = <<space>> /\ spaceQuotesTest(string)
    THEN escapedQuotes(spaceQuotesReplace(string), quote)
  ELSE escapedQuotes(string, quote)

parseString(string, quote, ignoreSpacesAfterQuotedString) ==
  IF quote # <<space>> /\ surroundedQuotesTest(string, quote)
    THEN escapedQuotes(
           surroundedQuotesReplace(string, quote, ignoreSpacesAfterQuotedString), quote)
  ELSE IF quote = <<space>> /\ spaceQuotesTest(string)
    THEN escapedQuotes(spaceQuotesReplace(string), quote)
  ELSE string

parseSubArrays(subArray, quote, ignoreSpacesAfterQuotedString) ==
  [i \in 1..Len(subArray) |-> parseString(subArray[i], quote, ignoreSpacesAfterQuotedString)]

----------------------------------------------------------------------------
(* src/CSV.mjs 153-261: the tokenizer *)

classifyCharacter(character, quote, separators) ==
  LET found ==
        IF character = LF THEN <<"linefeed">>
        ELSE (IF <<character>> = quote THEN <<"quote">> ELSE <<>>)
             \o (IF Includes(separators, <<character>>) THEN <<"separator">> ELSE <<>>)
             \o (IF character = space THEN <<"space">> ELSE <<>>)
  IN  IF Len(found) = 0 THEN <<"other">> ELSE found

\* consume that appends to the first cell of the last row
consumeIntoFirstCell(array, string) ==
  [array EXCEPT ![Len(array)][1] = @ \o string]

\* consume that appends the string twice
consumeTwice(array, string) ==
  LET r == Len(array)
      c == Len(array[r])
  IN  [array EXCEPT ![r][c] = @ \o string \o string]

\* lastLine[lastLine.length - 1] += character, on the array field
consume(array, string) ==
  LET r == Len(array)
      c == Len(array[r])
  IN  [array EXCEPT ![r][c] = @ \o string]

\* discardCell that drops the last cell even when it is the only one
discardCellAlways(aggregator_) ==
  LET r == Len(aggregator_.array)
  IN  [aggregator_ EXCEPT
         !.array = [@ EXCEPT ![r] = Front(@)],
         !.parserState = "finished",
         !.lineTaint = "none"]

discardCell(aggregator_) ==
  LET r == Len(aggregator_.array)
  IN  [aggregator_ EXCEPT
         !.array = IF Len(@[r]) > 1 THEN [@ EXCEPT ![r] = Front(@)] ELSE @,
         !.parserState = "finished",
         !.lineTaint = "none"]

\* endCell that opens a new row for a separator as well
endCellAlwaysNewRow(aggregator_, characterClasses) ==
  [aggregator_ EXCEPT !.array = Append(@, << <<>> >>),
                      !.lineTaint = "none",
                      !.parserState = "empty"]

\* endCell leaving the parser state as it is
endCellKeepingState(aggregator_, characterClasses) ==
  LET r == Len(aggregator_.array)
  IN  IF Includes(characterClasses, "separator")
        THEN [aggregator_ EXCEPT !.array = [@ EXCEPT ![r] = Append(@, <<>>)]]
      ELSE IF Includes(characterClasses, "linefeed")
        THEN [aggregator_ EXCEPT !.array = Append(@, << <<>> >>), !.lineTaint = "none"]
      ELSE aggregator_

endCell(aggregator_, characterClasses) ==
  LET r == Len(aggregator_.array)
  IN  IF Includes(characterClasses, "separator")
        THEN [aggregator_ EXCEPT !.array = [@ EXCEPT ![r] = Append(@, <<>>)],
                                 !.parserState = "empty"]
      ELSE IF Includes(characterClasses, "linefeed")
        THEN [aggregator_ EXCEPT !.array = Append(@, << <<>> >>),
                                 !.lineTaint = "none",
                                 !.parserState = "empty"]
      ELSE [aggregator_ EXCEPT !.parserState = "empty"]

\* lineTaintActivation that never marks the next cell as affected
lineTaintActivationInactive(lineTaint, reducedClass) ==
  IF reducedClass \in {"quoteSeparator", "separator"} THEN "inactive" ELSE lineTaint

\* lineTaintActivation that marks the next cell as affected after any separator
lineTaintActivationActive(lineTaint, reducedClass) ==
  IF reducedClass \in {"quoteSeparator", "separator"} THEN "active" ELSE lineTaint

\* lineTaintActivation that activates nothing
lineTaintActivationNever(lineTaint, reducedClass) == lineTaint

lineTaintActivation(lineTaint, reducedClass) ==
  IF reducedClass = "quoteSeparator" THEN "active"
  ELSE IF reducedClass = "separator" THEN "inactive"
  ELSE lineTaint

\* Lines 218-236: the taint adjustment; yields the taint after the first
\* phase and whether the second phase (the forced termination) applies.
TaintPhase1(aggregator_, reducedClass, nextState) ==
  IF ~aggregator_.taintQuoteSeparatorLines THEN aggregator_.lineTaint
  ELSE IF nextState = "finished" /\ reducedClass # "linefeed"
          /\ aggregator_.parserState \in {"closed", "waiting"}
    THEN lineTaintActivation(aggregator_.lineTaint, reducedClass)
  ELSE IF nextState \in {"finished", "discarded"}
    THEN IF reducedClass = "linefeed" THEN "none"
         ELSE IF aggregator_.lineTaint # "none"
           THEN lineTaintActivation(aggregator_.lineTaint, reducedClass)
         ELSE aggregator_.lineTaint
  ELSE aggregator_.lineTaint

TaintTrigger(aggregator_, reducedClass, nextState) ==
  /\ aggregator_.taintQuoteSeparatorLines
  /\ reducedClass = "linefeed"
  /\ nextState = "open"
  /\ TaintPhase1(aggregator_, reducedClass, nextState) = "active"

tokenizeCells(aggregator_, character, idx, string) ==
  LET characterClasses == classifyCharacter(character, aggregator_.quote, aggregator_.separators)
      reducedClass == reduceClass(characterClasses)
      looked == transition(aggregator_.parserState, reducedClass)
      trigger == TaintTrigger(aggregator_, reducedClass, looked)
      nextState == IF trigger THEN "finished" ELSE looked
      a1 == [aggregator_ EXCEPT
               !.lineTaint = IF trigger THEN "none"
                             ELSE TaintPhase1(aggregator_, reducedClass, looked),
               !.array = IF trigger THEN consume(@, aggregator_.quote) ELSE @,
               !.parserState = nextState]
      a2 == IF a1.parserState = "discarded" THEN discardCell(a1) ELSE a1
  IN  IF idx # Len(string) - 1
        THEN IF a2.parserState = "finished" THEN endCell(a2, characterClasses)
             ELSE [a2 EXCEPT !.array = consume(@, <<character>>)]
      ELSE IF a2.parserState = "open"
        THEN [a2 EXCEPT !.array =
                consume(IF ~a2.ignoreLinefeedBeforeEOF THEN consume(@, <<character>>) ELSE @,
                        a2.quote)]
      ELSE a2

----------------------------------------------------------------------------
(* src/CSV.mjs 262-310: row mapping, quoting and line building *)

getLength(row) == Len(row)

Digits == <<"0", "1", "2", "3", "4", "5", "6", "7", "8", "9">>
IsDigit(c) == Includes(Digits, c)
DigitValue(c) == (CHOOSE i \in 1..Len(Digits) : Digits[i] = c) - 1

RECURSIVE NumericValue(_)
NumericValue(key) ==
  IF key = <<>> THEN 0 ELSE 10 * NumericValue(Front(key)) + DigitValue(Last(key))

\* A property key that is a canonical array index: such keys are listed
\* first and in ascending order, the others in order of creation.
IsArrayIndex(key) ==
  /\ key # <<>>
  /\ \A i \in 1..Len(key) : IsDigit(key[i])
  /\ (Len(key) > 1 => key[1] # "0")

HasOwnProperty(hashMap, key) == \E i \in 1..Len(hashMap) : hashMap[i].key = key

GetProperty(hashMap, key) ==
  IF HasOwnProperty(hashMap, key)
    THEN hashMap[CHOOSE i \in 1..Len(hashMap) : hashMap[i].key = key].value
  ELSE Undefined

\* hashMap[key] = value, the object being the sequence of its own
\* properties in the order Object.keys lists them.
SetProperty(hashMap, key, value) ==
  IF HasOwnProperty(hashMap, key)
    THEN [i \in 1..Len(hashMap) |->
            IF hashMap[i].key = key THEN [key |-> key, value |-> value] ELSE hashMap[i]]
  ELSE IF IsArrayIndex(key)
    THEN LET before == SelectSeq(hashMap,
                         LAMBDA e : IsArrayIndex(e.key) /\ NumericValue(e.key) < NumericValue(key))
             after == SelectSeq(hashMap,
                         LAMBDA e : ~(IsArrayIndex(e.key) /\ NumericValue(e.key) < NumericValue(key)))
         IN  before \o << [key |-> key, value |-> value] >> \o after
  ELSE Append(hashMap, [key |-> key, value |-> value])

\* String(this[index]) as a property key
HeaderKey(header, i) == IF i <= Len(header) THEN header[i] ELSE UndefinedKey

RECURSIVE toHashMapFrom(_, _, _, _)
toHashMapFrom(hashMap, row, header, i) ==
  IF i > Len(row) THEN hashMap
  ELSE toHashMapFrom(SetProperty(hashMap, HeaderKey(header, i), row[i]), row, header, i + 1)

toHashMap(row, header) == toHashMapFrom(<<>>, row, header, 1)

mapHeaderKeys(key, map) == IF HasOwnProperty(map, key) THEN GetProperty(map, key) ELSE <<>>

\* toRows that lists the values of the map in the map's own order
toRowsOfValues(map, header) == [i \in 1..Len(map) |-> map[i].value]

toRows(map, header) == [i \in 1..Len(header) |-> mapHeaderKeys(header[i], map)]

\* quoteString that also quotes a cell holding a carriage return
quoteStringOnCarriageReturn(cell_, quote, separator) ==
  LET quotedContent == ReplaceAll(cell_, quote, <<quote, quote>>)
  IN  IF Includes(cell_, LF) \/ Includes(cell_, CR) \/ Includes(cell_, quote)
         \/ Includes(cell_, separator)
        THEN <<quote>> \o quotedContent \o <<quote>>
      ELSE cell_

\* quoteString that wraps without doubling the quotes inside
quoteStringUnescaped(cell_, quote, separator) ==
  IF Includes(cell_, LF) \/ Includes(cell_, quote) \/ Includes(cell_, separator)
    THEN <<quote>> \o cell_ \o <<quote>>
  ELSE cell_

\* quoteString that wraps a cell only when it holds the quote
quoteStringOnQuoteOnly(cell_, quote, separator) ==
  LET quotedContent == ReplaceAll(cell_, quote, <<quote, quote>>)
  IN  IF Includes(cell_, quote)
        THEN <<quote>> \o quotedContent \o <<quote>>
      ELSE cell_

quoteString(cell_, quote, separator) ==
  LET quotedContent == ReplaceAll(cell_, quote, <<quote, quote>>)
  IN  IF Includes(cell_, LF) \/ Includes(cell_, quote) \/ Includes(cell_, separator)
        THEN <<quote>> \o quotedContent \o <<quote>>
      ELSE cell_

\* no padding: the cells of the line up to maxCellCount
PadLineUnpadded(line, maxCellCount) ==
  [i \in 1..(IF Len(line) <= maxCellCount THEN Len(line) ELSE Max(maxCellCount, 0)) |-> line[i]]

\* Array.from({length: maxCellCount}, (_, index) => line[index] ?? "")
PadLine(line, maxCellCount) ==
  [i \in 1..Max(maxCellCount, 0) |-> IF i <= Len(line) THEN line[i] ELSE <<>>]

toCSVLine(line, quote, separator, maxCellCount) ==
  LET cells == PadLine(line, maxCellCount)
  IN  Join([i \in 1..Len(cells) |-> quoteString(cells[i], quote, separator)], <<separator>>)

----------------------------------------------------------------------------
(* src/CSV.mjs 313-351: parse *)

TypeError == <<"TypeError">>   \* the call ended by throwing

FirstOr(array, default) == IF array = <<>> THEN default ELSE array[1]

EndsWith(s, c) == s # <<>> /\ Last(s) = c

\* Preprocess that never appends a line feed
PreprocessNotAppending(csv_, forceLineFeedAfterCarriageReturn, ignoreLinefeedBeforeEOF) ==
  LET replaced == IF forceLineFeedAfterCarriageReturn
                    THEN strictLinebreakGroups(csv_)
                    ELSE looseLinebreakGroups(csv_)
  IN  SelectSeq(replaced, LAMBDA c : c # NUL)

\* Preprocess that removes the NUL characters first
PreprocessRemovingNulFirst(csv_, forceLineFeedAfterCarriageReturn, ignoreLinefeedBeforeEOF) ==
  LET removed == SelectSeq(csv_, LAMBDA c : c # NUL)
      replaced == IF forceLineFeedAfterCarriageReturn
                    THEN strictLinebreakGroups(removed)
                    ELSE looseLinebreakGroups(removed)
  IN  replaced \o (IF ignoreLinefeedBeforeEOF /\ EndsWith(replaced, LF)
                     THEN <<>> ELSE <<LF>>)

\* Preprocess that appends a line feed whatever the text ends with
PreprocessAlwaysAppending(csv_, forceLineFeedAfterCarriageReturn, ignoreLinefeedBeforeEOF) ==
  LET replaced == IF forceLineFeedAfterCarriageReturn
                    THEN strictLinebreakGroups(csv_)
                    ELSE looseLinebreakGroups(csv_)
  IN  SelectSeq(replaced \o <<LF>>, LAMBDA c : c # NUL)

\* Lines 314-320: line break groups, the line feed before EOF, NUL removal.
Preprocess(csv_, forceLineFeedAfterCarriageReturn, ignoreLinefeedBeforeEOF) ==
  LET replaced == IF forceLineFeedAfterCarriageReturn
                    THEN strictLinebreakGroups(csv_)
                    ELSE looseLinebreakGroups(csv_)
      ended == replaced \o (IF ignoreLinefeedBeforeEOF /\ EndsWith(replaced, LF)
                              THEN <<>> ELSE <<LF>>)
  IN  SelectSeq(ended, LAMBDA c : c # NUL)

\* Lines 321-322
ValidQuote(quote) == FirstOr(SelectSeq(toCharArray(quote), validQuotesAndSeparators), <<>>)
ValidSeparators(separators) == SelectSeq(toCharArray(separators), validQuotesAndSeparators)

\* InitialAggregator that enables the taint adjustment whatever the quote
InitialAggregatorUngated(o) ==
  LET quote == ValidQuote(o.quote)
      separators == ValidSeparators(o.separators)
  IN  [ array |-> << << <<>> >> >>,
        parserState |-> "empty",
        quote |-> quote,
        separators |-> separators,
        ignoreLinefeedBeforeEOF |-> o.ignoreLinefeedBeforeEOF,
        taintQuoteSeparatorLines |-> o.taintQuoteSeparatorLines,
        lineTaint |-> "none" ]

\* Lines 328-340: the initial value of the reduce call
InitialAggregator(o) ==
  LET quote == ValidQuote(o.quote)
      separators == ValidSeparators(o.separators)
  IN  [ array |-> << << <<>> >> >>,
        parserState |-> "empty",
        quote |-> quote,
        separators |-> separators,
        ignoreLinefeedBeforeEOF |-> o.ignoreLinefeedBeforeEOF,
        taintQuoteSeparatorLines |-> o.taintQuoteSeparatorLines /\ Includes(separators, quote),
        lineTaint |-> "none" ]

\* Lines 324-350: [header, ...rows] = array.map(parseSubArrays, ...) and the
\* returned object.
ParseResult(array, quote, ignoreSpacesAfterQuotedString) ==
  LET parsed == [i \in 1..Len(array) |->
                   parseSubArrays(array[i], quote, ignoreSpacesAfterQuotedString)]
      header == IF parsed = <<>> THEN UndefinedRow ELSE Head(parsed)
      rows == IF parsed = <<>> THEN <<>> ELSE Tail(parsed)
  IN  [ header |-> header,
        rows |-> rows,
        mappedRows |-> [i \in 1..Len(rows) |-> toHashMap(rows[i], header)] ]

\* Array.from(csv).reduce(tokenizeCells, aggregator_), from the character
\* at index idx on
RECURSIVE Reduce(_, _, _)
Reduce(aggregator_, string, idx) ==
  IF idx >= Len(string) THEN aggregator_
  ELSE Reduce(tokenizeCells(aggregator_, string[idx + 1], idx, string), string, idx + 1)

\* parse(csv, o) as one function: lines 313-351
parse(csv_, o) ==
  LET string == Preprocess(csv_, o.forceLineFeedAfterCarriageReturn, o.ignoreLinefeedBeforeEOF)
      reduced == Reduce(InitialAggregator(o), string, 0)
  IN  ParseResult(reduced.array, reduced.quote, o.ignoreSpacesAfterQuotedString)

----------------------------------------------------------------------------
(* src/CSV.mjs 352-413: stringify *)

RECURSIVE MaxLength(_)
MaxLength(rows) ==
  IF Len(rows) = 1 THEN getLength(rows[1])
  ELSE Max(getLength(rows[1]), MaxLength(Tail(rows)))

EveryCellEmpty(row) == \A i \in 1..Len(row) : Len(row[i]) = 0

\* no row is popped
TrimRowsKeepingAll(allRows) == allRows

\* Lines 396-398: pop wholly empty rows off the end
RECURSIVE TrimRows(_)
TrimRows(allRows) ==
  IF Len(allRows) > 0 /\ EveryCellEmpty(Last(allRows)) THEN TrimRows(Front(allRows))
  ELSE allRows

\* !row[n - 1] || row[n - 1].length === 0, n being maxCellCount.length
CellEmptyOrAbsent(row, n) == IF n >= 1 /\ n <= Len(row) THEN Len(row[n]) = 0 ELSE TRUE

\* row.splice(n - 1, 1); a start of -1 counts from the end of the row
Splice(row, n) ==
  LET at == IF n = 0 THEN Len(row) ELSE n
  IN  IF at >= 1 /\ at <= Len(row)
        THEN SubSeq(row, 1, at - 1) \o SubSeq(row, at + 1, Len(row))
      ELSE row

\* the column loop left after one round
TrimColumnsOnce(allRows, n) ==
  IF n >= 0 /\ \A r \in 1..Len(allRows) : CellEmptyOrAbsent(allRows[r], n)
    THEN [allRows |-> [r \in 1..Len(allRows) |-> Splice(allRows[r], n)], maxCellCount |-> n - 1]
  ELSE [allRows |-> allRows, maxCellCount |-> n]

\* Lines 400-403: drop empty columns off the end
RECURSIVE TrimColumns(_, _)
TrimColumns(allRows, n) ==
  IF n >= 0 /\ \A r \in 1..Len(allRows) : CellEmptyOrAbsent(allRows[r], n)
    THEN TrimColumns([r \in 1..Len(allRows) |-> Splice(allRows[r], n)], n - 1)
  ELSE [allRows |-> allRows, maxCellCount |-> n]

StringifyQuote(quote) == FirstOr(SelectSeq(toCharArray(quote), validQuotesAndSeparators), <<DQ>>)[1]
StringifySeparator(separator) ==
  FirstOr(SelectSeq(toCharArray(separator), validQuotesAndSeparators), <<Comma>>)[1]
StringifyLineEnd(lineEnd) ==
  IF lineEnd = StringValue(<<CR, LF>>) \/ lineEnd = StringValue(<<CR>>) THEN lineEnd.string
  ELSE <<LF>>

\* Lines 387-412 for the rows header, ...rows.  Yields the text and the row
\* arrays as the call leaves them (splice changes them in place; rows popped
\* off allRows are left alone).
StringifyRows(header, rows, o) ==
  LET allRows == <<header>> \o rows
      kept == IF o.trimEmpty THEN TrimRows(allRows) ELSE allRows
      trimmed == IF o.trimEmpty THEN TrimColumns(kept, MaxLength(allRows))
                 ELSE [allRows |-> kept, maxCellCount |-> MaxLength(allRows)]
      quote == StringifyQuote(o.quote)
      separator == StringifySeparator(o.separator)
      lineEnd == StringifyLineEnd(o.lineEnd)
      lines == [r \in 1..Len(trimmed.allRows) |->
                  toCSVLine(trimmed.allRows[r], quote, separator, trimmed.maxCellCount)]
  IN  [ out |-> Join(lines, lineEnd) \o (IF o.lineEndBeforeEOF THEN lineEnd ELSE <<>>),
        allRows |-> trimmed.allRows \o SubSeq(allRows, Len(trimmed.allRows) + 1, Len(allRows)),
        emitted |-> [ rows |-> [r \in 1..Len(trimmed.allRows) |->
                                  PadLine(trimmed.allRows[r], trimmed.maxCellCount)],
                      maxCellCount |-> trimmed.maxCellCount ] ]

ArrayTable(rows) == [type |-> "array", value |-> rows,
                     header |-> UndefinedRow, rows |-> UndefinedRows,
                     mappedRows |-> UndefinedMaps]
ObjectTable(header, rows, mappedRows) ==
  [type |-> "object", value |-> <<>>,
   header |-> header, rows |-> rows, mappedRows |-> mappedRows]

\* A number, string or boolean (none has a header, rows or mappedRows
\* property), and null or undefined (whose properties cannot be read)
PrimitiveTable == [type |-> "primitive", value |-> <<>>,
                   header |-> UndefinedRow, rows |-> UndefinedRows,
                   mappedRows |-> UndefinedMaps]
NullTable == [type |-> "null", value |-> <<>>,
              header |-> UndefinedRow, rows |-> UndefinedRows,
              mappedRows |-> UndefinedMaps]

\* Lines 363-380: header and rows as the destructuring binds them, before
\* anything is rebuilt or trimmed
GivenRows(object) ==
  IF object.type = "array" THEN object.value
  ELSE << (IF object.header = UndefinedRow THEN <<>> ELSE object.header) >>
         \o (IF object.rows = UndefinedRows THEN <<>> ELSE object.rows)

\* stringify(object, o): the returned text (or TypeError) and the argument
\* as the call leaves it.
stringify(object, o) ==
  IF object.type = "null"
    THEN [out |-> TypeError, object |-> object,   \* destructuring of null
          emitted |-> [rows |-> <<>>, maxCellCount |-> 0]]
  ELSE IF object.type = "array"
    THEN IF object.value = <<>>
           THEN [out |-> TypeError, object |-> object,   \* getLength(undefined)
                 emitted |-> [rows |-> <<>>, maxCellCount |-> 0]]
         ELSE LET done == StringifyRows(Head(object.value), Tail(object.value), o)
              IN  [out |-> done.out, object |-> ArrayTable(done.allRows),
                   emitted |-> done.emitted]
  ELSE LET header == IF object.header = UndefinedRow THEN <<>> ELSE object.header
           rows == IF object.rows = UndefinedRows THEN <<>> ELSE object.rows
           mappedRows == IF object.mappedRows = UndefinedMaps THEN <<>> ELSE object.mappedRows
           rebuilt == Len(rows) = 0 /\ Len(mappedRows) > 0
           used == IF rebuilt THEN [i \in 1..Len(mappedRows) |-> toRows(mappedRows[i], header)]
                   ELSE rows
           done == StringifyRows(header, used, o)
       IN  [ out |-> done.out,
             object |-> IF rebuilt \/ object.rows = UndefinedRows THEN object
                        ELSE [object EXCEPT !.rows = Tail(done.allRows)],
             emitted |-> done.emitted ]

----------------------------------------------------------------------------
(* Inputs *)

MaxLen == 3            \* longest text given to parse, all characters and options
MaxTokens == 4         \* longest text of the tokenizer runs
MaxTaintLen == 6       \* longest text of the taint runs

Alphabet == {LF, CR, NUL, DQ, Comma, space, "a"}

QuoteOptions == { StringValue(<<DQ>>), StringValue(<<Comma>>),
                  StringValue(<<space>>), StringValue(<<>>) }

SeparatorsOptions == { ArrayValue(<< <<Comma>> >>), StringValue(<<Comma, space>>) }

ParseOptions ==
  [ quote : QuoteOptions,
    separators : SeparatorsOptions,
    forceLineFeedAfterCarriageReturn : BOOLEAN,
    ignoreLinefeedBeforeEOF : BOOLEAN,
    ignoreSpacesAfterQuotedString : BOOLEAN,
    taintQuoteSeparatorLines : BOOLEAN ]

\* parse(csv) without a second argument: line 313
DefaultParseOptions ==
  [ quote |-> StringValue(<<DQ>>),
    separators |-> ArrayValue(<< <<Comma>> >>),
    forceLineFeedAfterCarriageReturn |-> TRUE,
    ignoreLinefeedBeforeEOF |-> TRUE,
    ignoreSpacesAfterQuotedString |-> TRUE,
    taintQuoteSeparatorLines |-> FALSE ]

\* stringify(object) without a second argument: line 352
DefaultStringifyOptions ==
  [ quote |-> StringValue(<<DQ>>),
    separator |-> StringValue(<<Comma>>),
    lineEnd |-> StringValue(<<LF>>),
    trimEmpty |-> TRUE,
    lineEndBeforeEOF |-> FALSE ]

NoStep == [ n |-> 0, character |-> "", parserState |-> "", characterClasses |-> <<>>,
            reducedClass |-> "",
            looked |-> "", forced |-> FALSE, ended |-> FALSE,
            opened |-> "none", delimiter |-> "none",
            written |-> << << <<>> >> >>, quoted |-> << <<FALSE>> >>,
            closedQuoted |-> FALSE ]

\* The cells as written in the preprocessed text, in the shape of the table
\* the tokenizer has built: the characters read while each cell was under
\* construction, without the delimiter that ended it.
Written(written, array, next, character, consumed) ==
  LET r == Len(array)
      kept == IF Len(next[r]) < Len(array[r]) THEN SubSeq(written[r], 1, Len(next[r]))
              ELSE written[r]
      added == IF Len(next[r]) > Len(array[r]) THEN Append(kept, <<>>)
               ELSE IF consumed THEN [kept EXCEPT ![Len(kept)] = @ \o <<character>>]
               ELSE kept
      rows == [written EXCEPT ![r] = added]
  IN  IF Len(next) > r THEN Append(rows, << <<>> >>) ELSE rows

\* Whether each cell has been in the open state, in the same shape.
Quoted(quoted, array, next, open) ==
  LET r == Len(array)
      c == Len(array[r])
      marked == [quoted[r] EXCEPT ![c] = @ \/ open]
      kept == IF Len(next[r]) < Len(array[r]) THEN SubSeq(marked, 1, Len(next[r]))
              ELSE marked
      added == IF Len(next[r]) > Len(array[r]) THEN Append(kept, FALSE) ELSE kept
      rows == [quoted EXCEPT ![r] = added]
  IN  IF Len(next) > r THEN Append(rows, <<FALSE>>) ELSE rows

----------------------------------------------------------------------------
(* The parse call: one action per step of parse *)

\* Lines 314-340: preprocessing, option validation, the initial aggregator
ParseBegin ==
  /\ pc = "parse"
  /\ csv' = Preprocess(text, options.forceLineFeedAfterCarriageReturn,
                       options.ignoreLinefeedBeforeEOF)
  /\ aggregator' = InitialAggregator(options)
  /\ index' = 0
  /\ step' = NoStep
  /\ pc' = "tokenize"
  /\ UNCHANGED <<text, options, result, given, table, soptions, out, out2, cell, cellOut, emitted>>

\* One call of the reducer tokenizeCells (lines 213-261).  step records what
\* the call looked up: the classes classifyCharacter gave the character, the
\* state and reduced class given to transition, its
\* result, whether the taint adjustment forced the cell to end, whether
\* endCell ran, and the reduced class of the delimiter that opened the cell
\* the character was read in ("none" for the first cell of a row); and, for
\* each cell of the table, the characters of csv read for it and whether it
\* has been open; and whether a cell of the current row has been finished
\* by a separator in the closed or waiting state.
Tokenize ==
  /\ pc = "tokenize"
  /\ index < Len(csv)
  /\ LET character == csv[index + 1]
         characterClasses == classifyCharacter(character, aggregator.quote, aggregator.separators)
         reducedClass == reduceClass(characterClasses)
         looked == transition(aggregator.parserState, reducedClass)
         next == tokenizeCells(aggregator, character, index, csv)
         ended == next.parserState = "empty"
     IN  /\ step' = [ n |-> index + 1,
                      character |-> character,
                      parserState |-> aggregator.parserState,
                      characterClasses |-> characterClasses,
                      reducedClass |-> reducedClass,
                      looked |-> looked,
                      forced |-> TaintTrigger(aggregator, reducedClass, looked),
                      ended |-> ended,
                      opened |-> step.delimiter,
                      delimiter |-> IF ~ended THEN step.delimiter
                                    ELSE IF Len(next.array) > Len(aggregator.array) THEN "none"
                                    ELSE reducedClass,
                      written |-> Written(step.written, aggregator.array, next.array,
                                          character,
                                          index # Len(csv) - 1 /\ ~ended),
                      quoted |-> Quoted(step.quoted, aggregator.array, next.array,
                                        looked = "open"),
                      closedQuoted |->
                        IF Len(next.array) > Len(aggregator.array) THEN FALSE
                        ELSE \/ step.closedQuoted
                             \/ /\ aggregator.parserState \in {"closed", "waiting"}
                                /\ looked = "finished"
                                /\ Includes(characterClasses, "separator") ]
         /\ IF looked = "TypeError"
              THEN /\ pc' = "error"
                   /\ UNCHANGED <<aggregator, index>>
            ELSE /\ aggregator' = next
                 /\ index' = index + 1
                 /\ pc' = pc
  /\ UNCHANGED <<text, options, csv, result, given, table, soptions, out, out2, cell, cellOut, emitted>>

\* Lines 340-350: the reduce call is over; normalise the cells and return
ParseEnd ==
  /\ pc = "tokenize"
  /\ index = Len(csv)
  /\ result' = ParseResult(aggregator.array, aggregator.quote,
                           options.ignoreSpacesAfterQuotedString)
  /\ pc' = "parsed"
  /\ UNCHANGED <<text, options, csv, index, aggregator, step, given, table, soptions,
                 out, out2, cell, cellOut, emitted>>

Idle ==
  /\ csv = NoValue
  /\ index = 0
  /\ aggregator = NoValue
  /\ step = NoStep
  /\ result = NoValue
  /\ given = NoValue
  /\ table = NoValue
  /\ soptions = NoValue
  /\ out = NoValue
  /\ out2 = NoValue
  /\ emitted = NoValue
  /\ cell = NoValue
  /\ cellOut = NoValue

Init ==
  /\ pc = "parse"
  /\ text \in SeqsUpTo(Alphabet, MaxLen)
  /\ options \in ParseOptions
  /\ Idle

Next == ParseBegin \/ Tokenize \/ ParseEnd

Spec == Init /\ [][Next]_vars

\* Tokenizer runs: longer texts that are already free of carriage returns
\* and NULs, every quote and separator setting.
TokenAlphabet == {LF, DQ, Comma, space, "a"}

TokenizerOptions ==
  { o \in ParseOptions : o.forceLineFeedAfterCarriageReturn /\ o.ignoreSpacesAfterQuotedString }

InitTokenizer ==
  /\ pc = "parse"
  /\ text \in SeqsUpTo(TokenAlphabet, MaxTokens)
  /\ options \in TokenizerOptions
  /\ Idle

SpecTokenizer == InitTokenizer /\ [][Next]_vars

\* Taint runs: the quote is one of two separators and
\* taintQuoteSeparatorLines is set.
TaintAlphabet == {LF, Comma, Semi, space, "a"}

TaintOptions ==
  { [DefaultParseOptions EXCEPT !.quote = StringValue(<<Comma>>),
                                !.separators = StringValue(<<Comma, Semi>>),
                                !.taintQuoteSeparatorLines = TRUE,
                                !.ignoreLinefeedBeforeEOF = b] : b \in BOOLEAN }

InitTaint ==
  /\ pc = "parse"
  /\ text \in SeqsUpTo(TaintAlphabet, MaxTaintLen)
  /\ options \in TaintOptions
  /\ Idle

SpecTaint == InitTaint /\ [][Next]_vars

----------------------------------------------------------------------------
(* The README's tainted row, src/unnamed/part_000 138-155, with quote and  *)
(* separator both a comma.                                                 *)

TaintedRowText ==
  <<Comma, "F", "o", "x", "e", "s", space, "&", space, "W", "o", "l", "v", "e", "s", Comma, space, Comma, "T", "u", "c", "a", "n", "s", Comma, Comma, "B", "i", "r", "d", "s", LF, "o", "f", space, "P", "a", "r", "a", "d", "i", "s", "e", Comma>>

FoxesAndWolves == <<"F", "o", "x", "e", "s", space, "&", space, "W", "o", "l", "v", "e", "s">>
Tucans == <<"T", "u", "c", "a", "n", "s">>
Birds == <<"B", "i", "r", "d", "s">>
OfParadise == <<"o", "f", space, "P", "a", "r", "a", "d", "i", "s", "e">>

TaintedRowOptions ==
  { [DefaultParseOptions EXCEPT !.quote = StringValue(<<Comma>>),
                                !.separators = StringValue(<<Comma>>),
                                !.taintQuoteSeparatorLines = t,
                                !.ignoreSpacesAfterQuotedString = b] : t, b \in BOOLEAN }

InitTaintedRow ==
  /\ pc = "parse"
  /\ text = TaintedRowText
  /\ options \in TaintedRowOptions
  /\ Idle

SpecTaintedRow == InitTaintedRow /\ [][Next]_vars

----------------------------------------------------------------------------
(* Cell runs: quoteString on one cell, then parseString on the quoted and  *)
(* escaped form of the cell.                                               *)

MaxCellLen == 3        \* longest cell of a cell run

CellAlphabet == {LF, CR, DQ, Comma, space, "a"}

CellQuotes == { StringValue(<<DQ>>), StringValue(<<Comma>>), StringValue(<<space>>),
                StringValue(<<Apos>>) }

CellSeparators == { StringValue(<<Comma>>), StringValue(<<Semi>>), StringValue(<<space>>) }

NoCellOut == [quoted |-> NoValue, line |-> NoValue, wrapped |-> NoValue, normalized |-> NoValue]

InitCell ==
  /\ pc = "cell"
  /\ cell \in SeqsUpTo(CellAlphabet, MaxCellLen)
  /\ \E q \in CellQuotes, p \in CellSeparators, b \in BOOLEAN :
       /\ soptions = [DefaultStringifyOptions EXCEPT !.quote = q, !.separator = p,
                                                     !.trimEmpty = FALSE]
       /\ options = [DefaultParseOptions EXCEPT !.quote = q,
                                                !.ignoreSpacesAfterQuotedString = b]
  /\ cellOut = NoCellOut
  /\ text = NoValue
  /\ csv = NoValue
  /\ index = 0
  /\ aggregator = NoValue
  /\ step = NoStep
  /\ result = NoValue
  /\ given = NoValue
  /\ table = NoValue
  /\ out = NoValue
  /\ out2 = NoValue
  /\ emitted = NoValue

\* quoteString(cell) with the quote and separator stringify passes on (lines
\* 285-299, 357-358), and the line stringify emits for the row [cell, "a"].
QuoteCell ==
  /\ pc = "cell"
  /\ cellOut' = [cellOut EXCEPT
       !.quoted = quoteString(cell, StringifyQuote(soptions.quote),
                              StringifySeparator(soptions.separator)),
       !.line = stringify(ArrayTable(<< <<cell, <<"a">> >> >>), soptions).out]
  /\ pc' = "quoted"
  /\ UNCHANGED <<text, options, csv, index, aggregator, step, result, given, table,
                 soptions, out, out2, cell, emitted>>

\* The quoted and escaped form of the cell, lines 292 and 295
WrapCell ==
  /\ pc = "quoted"
  /\ LET quote == StringifyQuote(soptions.quote)
     IN  cellOut' = [cellOut EXCEPT
           !.wrapped = <<quote>> \o ReplaceAll(cell, quote, <<quote, quote>>) \o <<quote>>]
  /\ pc' = "wrapped"
  /\ UNCHANGED <<text, options, csv, index, aggregator, step, result, given, table,
                 soptions, out, out2, cell, emitted>>

\* parseString on that form, with the same quote (lines 120-144, 341-344)
NormalizeCell ==
  /\ pc = "wrapped"
  /\ cellOut' = [cellOut EXCEPT
       !.normalized = parseString(cellOut.wrapped, ValidQuote(options.quote),
                                  options.ignoreSpacesAfterQuotedString)]
  /\ pc' = "normalized"
  /\ UNCHANGED <<text, options, csv, index, aggregator, step, result, given, table,
                 soptions, out, out2, cell, emitted>>

NextCell == QuoteCell \/ WrapCell \/ NormalizeCell

SpecCell == InitCell /\ [][NextCell]_vars

----------------------------------------------------------------------------
(* Round trips: stringify a table, parse the text, stringify the result,   *)
(* all with default options.                                               *)

MaxRows == 2           \* most rows of a table
MaxCols == 2           \* most cells of a row
MaxChars == 3          \* most characters of a table, all cells together

TableAlphabet == {LF, CR, NUL, DQ, Comma, space, "a"}

\* the strings of exactly k characters
RECURSIVE CellsOf(_)
CellsOf(k) ==
  IF k = 0 THEN { <<>> }
  ELSE { Append(s, x) : s \in CellsOf(k - 1), x \in TableAlphabet }

\* the rows of exactly c cells holding exactly k characters
RECURSIVE RowsOf(_, _)
RowsOf(c, k) ==
  IF c = 0 THEN (IF k = 0 THEN { <<>> } ELSE {})
  ELSE UNION { { <<x>> \o r : x \in CellsOf(j), r \in RowsOf(c - 1, k - j) } : j \in 0..k }

\* the tables of exactly n rows holding exactly k characters
RECURSIVE TablesOf(_, _)
TablesOf(n, k) ==
  IF n = 0 THEN (IF k = 0 THEN { <<>> } ELSE {})
  ELSE UNION { { <<r>> \o t : r \in UNION { RowsOf(c, j) : c \in 0..MaxCols },
                             t \in TablesOf(n - 1, k - j) } : j \in 0..k }

Tables(rows, chars) == UNION { TablesOf(n, k) : n \in 0..rows, k \in 0..chars }

InitRoundTrip ==
  /\ pc = "stringify"
  /\ table \in { ArrayTable(t) : t \in Tables(MaxRows, MaxChars) }
  /\ soptions = DefaultStringifyOptions
  /\ options = DefaultParseOptions
  /\ text = NoValue
  /\ csv = NoValue
  /\ index = 0
  /\ aggregator = NoValue
  /\ step = NoStep
  /\ result = NoValue
  /\ given = NoValue
  /\ out = NoValue
  /\ out2 = NoValue
  /\ emitted = NoValue
  /\ cell = NoValue
  /\ cellOut = NoValue

\* stringify(table, soptions), lines 352-413; its result is the text parse
\* is called with.  table holds the caller's rows as the call leaves them,
\* given the rows as they were, emitted the rows handed to toCSVLine, padded
\* as toCSVLine pads them, and maxCellCount.
Stringify ==
  /\ pc = "stringify"
  /\ LET done == stringify(table, soptions)
     IN  /\ out' = done.out
         /\ table' = done.object
         /\ given' = GivenRows(table)
         /\ emitted' = done.emitted
         /\ IF done.out = TypeError
              THEN pc' = "error" /\ text' = text
            ELSE pc' = "parse" /\ text' = done.out
  /\ UNCHANGED <<options, csv, index, aggregator, step, result, soptions, out2,
                 cell, cellOut>>

\* stringify(parse(...), soptions)
StringifyResult ==
  /\ pc = "parsed"
  /\ out2' = stringify(ObjectTable(result.header, result.rows, result.mappedRows),
                       soptions).out
  /\ pc' = "restringified"
  /\ UNCHANGED <<text, options, csv, index, aggregator, step, result, given, table,
                 soptions, out, cell, cellOut, emitted>>

NextRoundTrip == Stringify \/ ParseBegin \/ Tokenize \/ ParseEnd \/ StringifyResult

SpecRoundTrip == InitRoundTrip /\ [][NextRoundTrip]_vars

----------------------------------------------------------------------------
(* The transition table of the specification, section 4.3 (lineFeed is     *)
(* spelled linefeed in the code).                                          *)

Row(lf, other, quote, separator, sp, quoteSeparator) ==
  [ linefeed |-> lf, other |-> other, quote |-> quote, separator |-> separator,
    space |-> sp, quoteSeparator |-> quoteSeparator ]

TransitionTable ==
  [ empty     |-> Row("discarded", "unquoted", "open",     "finished", "unsettled", "open"),
    unsettled |-> Row("finished",  "unquoted", "open",     "finished", "unsettled", "open"),
    unquoted  |-> Row("finished",  "unquoted", "unquoted", "finished", "unquoted",  "finished"),
    open      |-> Row("open",      "open",     "waiting",  "open",     "open",      "waiting"),
    waiting   |-> Row("finished",  "open",     "open",     "finished", "closed",    "open"),
    closed    |-> Row("finished",  "open",     "closed",   "finished", "closed",    "finished") ]

ReducedClasses == {"linefeed", "other", "quote", "separator", "space", "quoteSeparator"}

\* C1: whenever the tokenizer looks up a transition, the current state is
\* one of the six table rows, the reduced class one of the six columns, and
\* the next state it gets is the one the specification's table gives; empty
\* and unsettled agree on every class but the line feed, where empty gives
\* discarded and unsettled gives finished.
C1_TransitionTable ==
  step.n > 0 =>
    /\ step.parserState \in DOMAIN TransitionTable
    /\ step.reducedClass \in ReducedClasses
    /\ step.looked = TransitionTable[step.parserState][step.reducedClass]
    /\ step.parserState \in {"empty", "unsettled"} =>
         step.looked = IF step.reducedClass = "linefeed"
                         THEN (IF step.parserState = "empty" THEN "discarded" ELSE "finished")
                       ELSE TransitionTable["unsettled"][step.reducedClass]

C1_Witness ==
  /\ step.parserState = "empty"
  /\ step.reducedClass = "linefeed"
  /\ step.looked = "discarded"
  /\ step.n > 1

\* C2: parse never throws: no step of the call raises an error, whatever the
\* text and the options, and the value it returns has a header row.
C2_ParseNeverRaises ==
  /\ pc # "error"
  /\ pc = "tokenize" => aggregator.parserState # "undefined"
  /\ pc = "parsed" => /\ index = Len(csv)
                      /\ result.header # UndefinedRow
                      /\ Len(result.rows) = Len(aggregator.array) - 1
                      /\ Len(result.mappedRows) = Len(result.rows)

C2_Witness ==
  /\ pc = "parsed"
  /\ text = <<DQ, CR, NUL>>
  /\ options.taintQuoteSeparatorLines
  /\ options.quote = StringValue(<<>>)

----------------------------------------------------------------------------
(* Round trips *)

AllCells(rows, P(_)) == \A r \in 1..Len(rows) : \A c \in 1..Len(rows[r]) : P(rows[r][c])

\* no cell holds a quote, a separator or a line feed
SafeContent(rows) ==
  AllCells(rows, LAMBDA x : ~Includes(x, DQ) /\ ~Includes(x, Comma) /\ ~Includes(x, LF))

\* no cell holds a carriage return or a NUL
NoCarriageReturnOrNul(rows) ==
  AllCells(rows, LAMBDA x : ~Includes(x, CR) /\ ~Includes(x, NUL))

\* one row or more; every row has a cell and is as long as the longest row
\* or one cell shorter; no row of the full length with two or more cells
\* ends with an empty cell; the last row has a non-empty cell
RoundTripShape(rows) ==
  /\ Len(rows) >= 1
  /\ \A r \in 1..Len(rows) :
       /\ Len(rows[r]) >= 1
       /\ Len(rows[r]) >= MaxLength(rows) - 1
       /\ (Len(rows[r]) = MaxLength(rows) /\ Len(rows[r]) >= 2) => Last(rows[r]) # <<>>
  /\ ~EveryCellEmpty(Last(rows))

\* C3 as stated: for any table whose cells hold no quote, separator or line
\* feed, parse(stringify(T)) gives T's first row as header and T's other
\* rows as rows.
C3_AsStated ==
  (pc = "parsed" /\ SafeContent(given)) =>
    /\ result.header = given[1]
    /\ result.rows = Tail(given)

\* C3 amended: the round trip holds for a table of one row or more whose
\* cells hold no quote, separator, line feed, carriage return or NUL, in
\* which every row has a cell and is as long as the longest row or one cell
\* shorter, no row of the full length with two or more cells ends with an
\* empty cell, and the last row has a non-empty cell.
C3_RoundTripSafeContent ==
  (pc = "parsed" /\ Len(given) >= 1 /\ SafeContent(given) /\ NoCarriageReturnOrNul(given)
     /\ RoundTripShape(given)) =>
    /\ result.header = given[1]
    /\ result.rows = Tail(given)

C3_Witness ==
  /\ pc = "parsed"
  /\ given = << << <<>>, <<"a">> >>, << <<space>> >> >>
  /\ result.header = << <<>>, <<"a">> >>
  /\ result.rows = << << <<space>> >> >>

\* C4 as stated: for any table of strings, stringify(parse(stringify(T)))
\* is the same text as stringify(T).
C4_AsStated == pc = "restringified" => out2 = out

\* C4 amended: for any table of at least one row whose cells hold no
\* carriage return and no NUL, stringify(parse(stringify(T))) is the same
\* text as stringify(T).
C4_IdempotentRestringification ==
  (pc = "restringified" /\ NoCarriageReturnOrNul(given)) => out2 = out

C4_Witness ==
  /\ pc = "restringified"
  /\ given = << << <<DQ>> >>, << <<>>, <<LF>> >> >>
  /\ out2 = out

----------------------------------------------------------------------------
(* Cell runs *)

RECURSIVE Count(_, _)
Count(s, c) == IF s = <<>> THEN 0 ELSE (IF Head(s) = c THEN 1 ELSE 0) + Count(Tail(s), c)

CellQuote == StringifyQuote(soptions.quote)
CellSeparator == StringifySeparator(soptions.separator)

MustBeQuoted ==
  Includes(cell, CellQuote) \/ Includes(cell, CellSeparator) \/ Includes(cell, LF)

C7_EscapeSymmetry == pc = "normalized" => cellOut.normalized = cell

C7_Witness ==
  /\ pc = "normalized"
  /\ soptions.quote = StringValue(<<space>>)
  /\ cell = <<space, DQ, space>>
  /\ cellOut.wrapped = <<space, space, space, DQ, space, space, space>>

----------------------------------------------------------------------------
(* Taint *)

\* C8 as stated: with quote = separator = comma, taint emulation on and the
\* other options at their defaults, the tainted row parses to
\* ["Foxes & Wolves ", "Tucans", "Birds"] and ["of Paradise"].
C8_AsStated ==
  (pc = "parsed" /\ options.taintQuoteSeparatorLines
     /\ options.ignoreSpacesAfterQuotedString) =>
    /\ result.header = <<FoxesAndWolves \o <<space>>, Tucans, Birds>>
    /\ result.rows = << <<OfParadise>> >>

\* C8 amended: with the other options at their defaults the first cell is
\* "Foxes & Wolves" without the trailing space (the space is kept only when
\* ignoreSpacesAfterQuotedString is false); the rows are
\* ["Foxes & Wolves", "Tucans", "Birds"] and ["of Paradise"], and the line
\* feed inside the last quoted value does not survive.
C8_TaintedRow ==
  (pc = "parsed" /\ options.taintQuoteSeparatorLines) =>
    /\ result.header =
         << FoxesAndWolves \o (IF options.ignoreSpacesAfterQuotedString THEN <<>> ELSE <<space>>),
            Tucans, Birds >>
    /\ result.rows = << <<OfParadise>> >>
    /\ \A c \in 1..Len(result.header) : ~Includes(result.header[c], LF)

C8_Witness ==
  /\ pc = "parsed"
  /\ options.taintQuoteSeparatorLines
  /\ options.ignoreSpacesAfterQuotedString
  /\ result.header = <<FoxesAndWolves, Tucans, Birds>>
  /\ Len(result.rows) = 1

LastRow == Last(aggregator.array)
LastCell == Last(LastRow)

\* C9: with taint emulation in effect, a line feed read inside an open
\* quoted cell ends the cell (a quote is appended, the cell finishes, a new
\* row starts) only if the delimiter right before the cell is both quote and
\* separator; if that delimiter is a separator other than the quote, or the
\* cell is the first of its row, the line feed is kept in the cell.
C9_ForcedTermination ==
  (pc = "tokenize" /\ step.n > 0 /\ aggregator.taintQuoteSeparatorLines
     /\ step.parserState \in {"open", "empty", "unsettled", "waiting"}
     /\ step.reducedClass = "linefeed" /\ step.looked = "open") =>
    /\ step.forced => step.opened = "quoteSeparator"
    /\ step.opened \in {"separator", "none"} => ~step.forced
    /\ (step.forced /\ step.n < Len(csv)) =>
         /\ LastRow = << <<>> >>
         /\ Last(Last(aggregator.array[Len(aggregator.array) - 1])) = aggregator.quote[1]
         /\ aggregator.parserState = "empty"
    /\ (~step.forced /\ step.n < Len(csv)) =>
         /\ LastCell # <<>>
         /\ Last(LastCell) = LF
         /\ aggregator.parserState = "open"

C9_Witness ==
  /\ pc = "tokenize"
  /\ step.forced
  /\ step.opened = "quoteSeparator"
  /\ step.n < Len(csv)
  /\ Len(aggregator.array) = 2

----------------------------------------------------------------------------
(* Row mapping *)

\* C10: in every mapped row, each header position at or beyond the length
\* of the body row has its header name as a key, with the empty string as
\* value.
C10_ShortRows ==
  pc = "parsed" =>
    \A r \in 1..Len(result.rows) :
      \A i \in (Len(result.rows[r]) + 1)..Len(result.header) :
        /\ HasOwnProperty(result.mappedRows[r], result.header[i])
        /\ GetProperty(result.mappedRows[r], result.header[i]) = <<>>

HeaderNames == { result.header[i] : i \in 1..Len(result.header) }

Keys(hashMap) == { hashMap[i].key : i \in 1..Len(hashMap) }

\* C11: in every mapped row the keys are header names only: the cells of a
\* body row at positions beyond the length of the header add no entry, and
\* the row in rows still holds those cells.
C11_LongRows ==
  pc = "parsed" =>
    \A r \in 1..Len(result.rows) :
      /\ Keys(result.mappedRows[r]) \subseteq HeaderNames
      /\ Len(result.rows[r]) = Len(aggregator.array[r + 1])

----------------------------------------------------------------------------
(* Discarded cells and the end of the input *)

\* k unquoted cells "a", each followed by a comma
RECURSIVE TrailingSeparatorLine(_)
TrailingSeparatorLine(k) ==
  IF k = 0 THEN <<>> ELSE <<"a", Comma>> \o TrailingSeparatorLine(k - 1)

\* the tokenizer reads a line feed while the cell under construction has
\* consumed no character (the state is empty)
DiscardStep ==
  /\ pc = "tokenize"
  /\ pc' = "tokenize"
  /\ index' = index + 1
  /\ aggregator.parserState = "empty"
  /\ csv[index + 1] = LF

\* C12: when the line feed of a row arrives and the cell under construction
\* has consumed nothing, the cell is dropped if the row holds another cell
\* and kept if it is the only cell of the row; so a line of k cells "a" with
\* one trailing separator parses to k cells, and an empty line parses to a
\* row of one empty cell.
C12_DiscardedCell ==
  /\ [][DiscardStep =>
          LET r == Len(aggregator.array)
              row == aggregator.array[r]
          IN  /\ Last(row) = <<>>
              /\ aggregator'.array[r] = IF Len(row) > 1 THEN Front(row) ELSE row
              /\ Len(aggregator'.array) = IF index + 1 < Len(csv) THEN r + 1 ELSE r
              /\ \A i \in 1..(r - 1) : aggregator'.array[i] = aggregator.array[i]]_vars
  /\ [](pc = "parsed" =>
          /\ \A k \in 1..(MaxTokens \div 2) :
               text = TrailingSeparatorLine(k) =>
                 /\ Len(result.header) = k
                 /\ \A i \in 1..k : result.header[i] = <<"a">>
                 /\ result.rows = <<>>
          /\ (text # <<>> /\ Head(text) = LF) => result.header = << <<>> >>)

C12_Witness ==
  /\ pc = "parsed"
  /\ text = TrailingSeparatorLine(2)
  /\ Len(result.header) = 2

\* the tokenizer reads the last character of the preprocessed text while
\* the state is open
LastOpenStep ==
  /\ pc = "tokenize"
  /\ pc' = "tokenize"
  /\ index' = index + 1
  /\ index + 1 = Len(csv)
  /\ aggregator.parserState = "open"

\* C13: when the last character of the preprocessed text is read in the
\* open state, the cell under construction gains exactly one quote at its
\* end, with the last character before it only if the line feed before EOF
\* is not ignored (and always then, unless the taint adjustment ended the
\* cell); nothing else in the table changes, so an unterminated quoted
\* value is returned as if closed at the end of the input.
C13_UnterminatedQuote ==
  /\ [][LastOpenStep =>
          LET r == Len(aggregator.array)
              c == Len(aggregator.array[r])
              before == aggregator.array[r][c]
              after == aggregator'.array[r][c]
              quote == aggregator.quote
              kept == after = before \o <<csv[index + 1]>> \o quote
              dropped == after = before \o quote
          IN  /\ Len(quote) = 1
              /\ Len(aggregator'.array) = r
              /\ Len(aggregator'.array[r]) = c
              /\ aggregator'.array = [aggregator.array EXCEPT ![r][c] = after]
              /\ kept \/ dropped
              /\ kept => ~aggregator.ignoreLinefeedBeforeEOF
              /\ (dropped /\ ~step'.forced) => aggregator.ignoreLinefeedBeforeEOF]_vars
  /\ [](pc = "parsed" /\ text = <<Comma, "a">> =>
          result.header = << <<"a">> \o (IF options.ignoreLinefeedBeforeEOF THEN <<>>
                                         ELSE <<LF>>) >>)

C13_Witness ==
  /\ pc = "tokenize"
  /\ index = Len(csv)
  /\ step.parserState = "open"
  /\ ~step.forced
  /\ ~aggregator.ignoreLinefeedBeforeEOF
  /\ LastCell = <<Comma, "a", LF, Comma>>

----------------------------------------------------------------------------
(* Normalisation runs: parseString on one cell as written in the text      *)

MaxWritten == 5        \* longest cell of a normalisation run

WrittenAlphabet == {DQ, Comma, space, "a"}

\* the README's example, src/unnamed/part_000 118-121
Apples == <<"A", "p", "p", "l", "e", "s">>
ApplesWritten == <<space, DQ>> \o Apples \o <<DQ, space>>

WrittenQuotes == QuoteOptions \cup { StringValue(<<Apos>>) }

InitNormalize ==
  /\ pc = "written"
  /\ cell \in SeqsUpTo(WrittenAlphabet, MaxWritten) \cup { ApplesWritten }
  /\ options \in { [DefaultParseOptions EXCEPT !.quote = q,
                                               !.ignoreSpacesAfterQuotedString = b] :
                     q \in WrittenQuotes, b \in BOOLEAN }
  /\ cellOut = NoCellOut
  /\ text = NoValue
  /\ csv = NoValue
  /\ index = 0
  /\ aggregator = NoValue
  /\ step = NoStep
  /\ result = NoValue
  /\ given = NoValue
  /\ table = NoValue
  /\ soptions = NoValue
  /\ out = NoValue
  /\ out2 = NoValue
  /\ emitted = NoValue

\* parseString(cell) with the quote parse passes on (lines 120-144, 321,
\* 341-344)
NormalizeWritten ==
  /\ pc = "written"
  /\ cellOut' = [cellOut EXCEPT
       !.normalized = parseString(cell, ValidQuote(options.quote),
                                  options.ignoreSpacesAfterQuotedString)]
  /\ pc' = "read"
  /\ UNCHANGED <<text, options, csv, index, aggregator, step, result, given, table,
                 soptions, out, out2, cell, emitted>>

SpecNormalize == InitNormalize /\ [][NormalizeWritten]_vars

Spaces(n) == [i \in 1..n |-> space]

\* the cell is l spaces, the quote q, some content, q, t spaces
WrittenQuoted(l, q, t) ==
  /\ l + 1 < Len(cell) - t
  /\ \A i \in 1..l : cell[i] = space
  /\ cell[l + 1] = q
  /\ cell[Len(cell) - t] = q
  /\ \A i \in (Len(cell) - t + 1)..Len(cell) : cell[i] = space

\* C14: a cell written as spaces, quote, content, quote, spaces, the quote
\* not being the space, is normalised to the content with each doubled
\* quote made one, followed by the spaces after the closing quote only if
\* ignoreSpacesAfterQuotedString is false; the spaces before the opening
\* quote are always removed.  " \"Apples\" " gives "Apples" or "Apples ".
C14_SpacesAroundQuotes ==
  pc = "read" =>
    LET quote == ValidQuote(options.quote)
    IN  (quote # <<>> /\ quote # <<space>>) =>
          /\ \A l, t \in 0..Len(cell) :
               WrittenQuoted(l, quote[1], t) =>
                 cellOut.normalized =
                   escapedQuotes(SubSeq(cell, l + 2, Len(cell) - t - 1), quote)
                     \o (IF options.ignoreSpacesAfterQuotedString THEN <<>> ELSE Spaces(t))
          /\ (cell = ApplesWritten /\ quote = <<DQ>>) =>
               cellOut.normalized =
                 Apples \o (IF options.ignoreSpacesAfterQuotedString THEN <<>> ELSE <<space>>)

C14_Witness ==
  /\ pc = "read"
  /\ cell = <<space, DQ, DQ, DQ, space>>
  /\ options.quote = StringValue(<<DQ>>)
  /\ ~options.ignoreSpacesAfterQuotedString
  /\ cellOut.normalized = <<DQ, space>>

----------------------------------------------------------------------------
(* Unquoted cells and calls without a quote *)

ResultTable == <<result.header>> \o result.rows

\* C15: with a quote in effect, every returned cell that was never in the
\* open state while the tokenizer built it is the text read for it between
\* its delimiters, character for character: its spaces are kept and a
\* doubled quote in it stays doubled.
C15_UnquotedCellsUnchanged ==
  (pc = "parsed" /\ aggregator.quote # <<>>) =>
    /\ Len(step.written) = Len(ResultTable)
    /\ \A r \in 1..Len(ResultTable) :
         /\ Len(step.written[r]) = Len(ResultTable[r])
         /\ \A c \in 1..Len(ResultTable[r]) :
              ~step.quoted[r][c] => ResultTable[r][c] = step.written[r][c]

C15_Witness ==
  /\ pc = "parsed"
  /\ aggregator.quote = <<DQ>>
  /\ text = <<space, "a", DQ, DQ>>
  /\ result.header = << <<space, "a", DQ, DQ>> >>
  /\ step.quoted = << <<FALSE>> >>

\* C16: when no quote is in effect, no character is classified as a quote
\* and every cell is returned exactly as the tokenizer built it, leading
\* spaces included.
C16_NoQuoteInEffect ==
  /\ (pc = "tokenize" /\ step.n > 0 /\ aggregator.quote = <<>>) =>
       step.reducedClass \notin {"quote", "quoteSeparator"}
  /\ (pc = "parsed" /\ aggregator.quote = <<>>) => ResultTable = aggregator.array

----------------------------------------------------------------------------
(* Configuration runs: parse with quote and separators values of every     *)
(* kind                                                                    *)

MaxConfigLen == 3      \* longest text of a configuration run

ConfigAlphabet == {LF, DQ, Comma, Semi, "a"}

ConfigQuotes ==
  { StringValue(<<DQ>>), StringValue(<<"a", DQ>>), StringValue(<<LF, DQ>>),
    StringValue(<<LF>>), StringValue(<<CR>>), StringValue(<<>>),
    ArrayValue(<< <<"a", DQ>>, <<DQ>> >>), ArrayValue(<< <<"a", DQ>> >>),
    ArrayValue(<< Undefined, <<>>, <<CR>> >>), OtherValue }

ConfigSeparators ==
  { ArrayValue(<< <<Comma>> >>), StringValue(<<Comma, "a">>), StringValue(<<LF, Semi, CR>>),
    ArrayValue(<< <<Comma, "a">>, <<Semi>> >>), ArrayValue(<< Undefined, <<>>, <<LF>> >>),
    StringValue(<<>>), OtherValue }

InitConfig ==
  /\ pc = "parse"
  /\ text \in SeqsUpTo(ConfigAlphabet, MaxConfigLen)
  /\ options \in { [DefaultParseOptions EXCEPT !.quote = q, !.separators = p] :
                     q \in ConfigQuotes, p \in ConfigSeparators }
  /\ Idle

SpecConfig == InitConfig /\ [][Next]_vars

\* the values a configured option offers: the characters of a string, the
\* elements of an array
Offered(object) ==
  IF object.type = "string" THEN [i \in 1..Len(object.string) |-> <<object.string[i]>>]
  ELSE IF object.type = "array" THEN object.array
  ELSE <<>>

\* a string of exactly one character that is no line feed or carriage return
OneCharacter(e) == e # Undefined /\ Len(e) = 1 /\ e[1] \notin {LF, CR}

ActsAsQuote == step.reducedClass \in {"quote", "quoteSeparator"}
ActsAsSeparator == step.reducedClass \in {"separator", "quoteSeparator"}

\* C17 as stated: a configured quote string that is not exactly one
\* character, or is a line feed or carriage return, leaves parse without a
\* quote.
C17_AsStated ==
  (pc \in {"tokenize", "parsed"} /\ options.quote.type = "string"
     /\ ~OneCharacter(options.quote.string)) =>
    /\ aggregator.quote = <<>>
    /\ step.n > 0 => ~ActsAsQuote

\* C17 amended: the quote in effect is the first offered value (character
\* of the string, element of the array) that is one character other than a
\* line feed or carriage return; if there is none, no character acts as a
\* quote.  The separators in effect are exactly the offered values of that
\* kind, and no other character acts as a separator.  No step raises an
\* error.
C17_FilteredConfiguration ==
  pc \in {"tokenize", "parsed"} =>
    LET quotes == Offered(options.quote)
        separators == Offered(options.separators)
    IN  /\ \A i \in 1..Len(quotes) :
             (OneCharacter(quotes[i]) /\ \A j \in 1..(i - 1) : ~OneCharacter(quotes[j])) =>
               aggregator.quote = quotes[i]
        /\ (\A i \in 1..Len(quotes) : ~OneCharacter(quotes[i])) =>
             /\ aggregator.quote = <<>>
             /\ step.n > 0 => ~ActsAsQuote
        /\ \A i \in 1..Len(separators) :
             OneCharacter(separators[i]) <=> Includes(aggregator.separators, separators[i])
        /\ \A i \in 1..Len(aggregator.separators) :
             Includes(separators, aggregator.separators[i])
        /\ (step.n > 0 /\ ActsAsSeparator) =>
             \E i \in 1..Len(separators) :
               OneCharacter(separators[i]) /\ separators[i] = <<step.character>>
        /\ (step.n > 0 /\ ActsAsQuote) => aggregator.quote = <<step.character>>
        /\ pc # "error"

C17_Witness ==
  /\ pc = "parsed"
  /\ options.quote = StringValue(<<"a", DQ>>)
  /\ options.separators = ArrayValue(<< <<Comma, "a">>, <<Semi>> >>)
  /\ text = <<"a", Semi, DQ>>
  /\ aggregator.quote = <<"a">>
  /\ aggregator.separators = << <<Semi>> >>
  /\ result.header = << <<Semi, DQ>> >>

----------------------------------------------------------------------------
(* Taint emulation and the quote *)

QuoteIsSeparator == Includes(aggregator.separators, aggregator.quote)

\* C18: when the quote is not one of the separators, the line taint is none
\* at every step and parse returns the same object whether
\* taintQuoteSeparatorLines is true or false.
C18_TaintNeedsQuoteSeparator ==
  /\ (pc = "tokenize" /\ ~QuoteIsSeparator) =>
       /\ aggregator.lineTaint = "none"
       /\ ~aggregator.taintQuoteSeparatorLines
       /\ ~step.forced
  /\ (pc = "parsed" /\ ~QuoteIsSeparator) =>
       /\ aggregator.lineTaint = "none"
       /\ result = parse(text, [options EXCEPT !.taintQuoteSeparatorLines = ~@])

C18_Witness ==
  /\ pc = "parsed"
  /\ options.taintQuoteSeparatorLines
  /\ options.quote = StringValue(<<DQ>>)
  /\ text = <<DQ, DQ, Comma>>
  /\ result = parse(text, [options EXCEPT !.taintQuoteSeparatorLines = FALSE])

----------------------------------------------------------------------------
(* Stringify runs: stringify on a table of rows, with and without trimEmpty *)

MaxTableRows == 2      \* most rows of a stringify run
MaxTableCols == 3      \* most cells of a row of a stringify run

StringifyCells == { <<>>, <<"a">> }

\* the specification's trimming scenario
TrimExample ==
  << << <<"A">>, <<"B">>, <<>>, <<>> >>,
  << <<"x">>, <<"y">> >> >>

\* the README's table of exampleCSV1 and exampleCSV2, src/unnamed/part_000
\* 361-389, and the texts it gives for them
ReadmeExample ==
  << << <<"C", "o", "l", "u", "m", "n", space, "1">>, <<"C", "o", "l", "u", "m", "n", space, "2">>, <<>>, <<>> >>,
  << <<"V", "a", "l", "u", "e", space, "1", "a">>, <<"V", "a", "l", "u", "e", space, "2", "a">> >>,
  << <<"V", "a", "l", "u", "e", space, "1", "b">> >>,
  << <<>> >> >>

exampleCSV1 ==
  <<"C", "o", "l", "u", "m", "n", space, "1", Comma, "C", "o", "l", "u", "m", "n", space, "2", Comma, Comma>> \o <<LF>>
    \o <<"V", "a", "l", "u", "e", space, "1", "a", Comma, "V", "a", "l", "u", "e", space, "2", "a", Comma, Comma>> \o <<LF>>
    \o <<"V", "a", "l", "u", "e", space, "1", "b", Comma, Comma, Comma>> \o <<LF>>
    \o <<Comma, Comma, Comma>>

exampleCSV2 ==
  <<"C", "o", "l", "u", "m", "n", space, "1", Comma, "C", "o", "l", "u", "m", "n", space, "2">> \o <<LF>>
    \o <<"V", "a", "l", "u", "e", space, "1", "a", Comma, "V", "a", "l", "u", "e", space, "2", "a">> \o <<LF>>
    \o <<"V", "a", "l", "u", "e", space, "1", "b", Comma>>

\* a table with a cell that has to be quoted
QuotedExample ==
  << << <<"a", Comma, "b">>, <<"c">> >>,
  << <<"d">> >> >>

StringifyTables(rows, cols) ==
  SeqsUpTo(SeqsUpTo(StringifyCells, cols), rows)
    \cup { TrimExample, ReadmeExample, QuotedExample }

InitStringify ==
  /\ pc = "stringify"
  /\ table \in { ArrayTable(t) : t \in StringifyTables(MaxTableRows, MaxTableCols) }
  /\ soptions \in { [DefaultStringifyOptions EXCEPT !.trimEmpty = b] : b \in BOOLEAN }
  /\ options = DefaultParseOptions
  /\ text = NoValue
  /\ csv = NoValue
  /\ index = 0
  /\ aggregator = NoValue
  /\ step = NoStep
  /\ result = NoValue
  /\ given = NoValue
  /\ out = NoValue
  /\ out2 = NoValue
  /\ emitted = NoValue
  /\ cell = NoValue
  /\ cellOut = NoValue

SpecStringify == InitStringify /\ [][Stringify]_vars

\* stringify has returned a text
Stringified == pc = "parse" /\ out # NoValue

\* the line of a row none of whose cells has to be quoted
PlainLine(row) == Join(row, <<Comma>>)

\* C19: with trimEmpty, the rows stringify leaves out are trailing rows of
\* empty cells only, the cells it leaves out of the rows it keeps are empty
\* cells at trailing positions, where every kept row has an empty cell or
\* none; and unless no row is left the last emitted row has a non-empty cell
\* and some emitted row has a non-empty cell in the last column.  The rows
\* [["A","B","",""],["x","y"]] are emitted with two columns.
C19_TrimToFixedPoint ==
  (Stringified /\ soptions.trimEmpty) =>
    LET rows == emitted.rows
        n == emitted.maxCellCount
    IN  /\ Len(rows) <= Len(given)
        /\ \A r \in (Len(rows) + 1)..Len(given) : EveryCellEmpty(given[r])
        /\ \A r \in 1..Len(rows) :
             /\ Len(rows[r]) = n
             /\ \A c \in 1..n : rows[r][c] = IF c <= Len(given[r]) THEN given[r][c] ELSE <<>>
             /\ \A c \in (n + 1)..Len(given[r]) : given[r][c] = <<>>
        /\ Len(rows) > 0 =>
             /\ ~EveryCellEmpty(rows[Len(rows)])
             /\ n >= 1
             /\ \E r \in 1..Len(rows) : rows[r][n] # <<>>
        /\ Len(rows) = 0 => out = <<>>
        /\ given \notin { QuotedExample } =>
             out = Join([r \in 1..Len(rows) |-> PlainLine(rows[r])], <<LF>>)
        /\ given = TrimExample =>
             /\ n = 2
             /\ out = <<"A", Comma, "B", LF, "x", Comma, "y">>
        /\ given = ReadmeExample => out = exampleCSV2

C19_Witness ==
  /\ Stringified
  /\ soptions.trimEmpty
  /\ given = << << <<"a">>, <<>>, <<>> >>, << <<>>, <<"a">>, <<>> >> >>
  /\ emitted.maxCellCount = 2
  /\ out = <<"a", Comma, LF, Comma, "a">>

\* the caller's rows that were turned into lines, as the call leaves them
RowsLeft == SubSeq(table.value, 1, Len(emitted.rows))

\* C20: every row stringify emits has exactly maxCellCount cells,
\* maxCellCount being the greatest length of a row, header included (of the
\* rows as trimming leaves them, with trimEmpty): the cells of the row
\* followed by empty cells; so every line holds maxCellCount - 1 separators
\* outside quoted values.
C20_PaddedRows ==
  Stringified =>
    LET rows == emitted.rows
        n == emitted.maxCellCount
    IN  /\ Len(rows) = Len(RowsLeft)
        /\ ~soptions.trimEmpty => /\ RowsLeft = given
                                  /\ n = MaxLength(given)
        /\ Len(rows) > 0 => n = MaxLength(RowsLeft)
        /\ \A r \in 1..Len(rows) :
             /\ Len(rows[r]) = n
             /\ SubSeq(rows[r], 1, Len(RowsLeft[r])) = RowsLeft[r]
             /\ \A c \in (Len(RowsLeft[r]) + 1)..n : rows[r][c] = <<>>
             /\ given \notin { QuotedExample } =>
                  Count(PlainLine(rows[r]), Comma) = Max(n - 1, 0)
        /\ given \notin { QuotedExample } =>
             out = Join([r \in 1..Len(rows) |-> PlainLine(rows[r])], <<LF>>)
        /\ given = QuotedExample =>
             out = <<DQ, "a", Comma, "b", DQ, Comma, "c", LF, "d", Comma>>
        /\ (given = ReadmeExample /\ ~soptions.trimEmpty) => out = exampleCSV1

C20_Witness ==
  /\ Stringified
  /\ ~soptions.trimEmpty
  /\ given = ReadmeExample
  /\ emitted.maxCellCount = 4
  /\ out = exampleCSV1

----------------------------------------------------------------------------
(* Mapped runs: stringify on an object {header, rows, mappedRows}          *)

MaxHeader == 2         \* most names of a header of a mapped run
MaxMappedRows == 2     \* most mapped rows of a mapped run

MappedKeys == { <<"a">>, <<"b">> }
MappedValues == { <<>>, <<"x">> }

\* the objects with own properties among a and b, in either order of creation
MappedRowObjects ==
  { <<>> }
    \cup { << [key |-> k, value |-> v] >> : k \in MappedKeys, v \in MappedValues }
    \cup { << [key |-> kl[1], value |-> v], [key |-> kl[2], value |-> w] >> :
             kl \in { p \in MappedKeys \X MappedKeys : p[1] # p[2] },
             v \in MappedValues, w \in MappedValues }

\* the rows property: missing, empty, or holding rows
MappedRowsGiven ==
  { UndefinedRows, <<>>, << << <<"z">> >> >>,
    << << <<"z">>, <<>>, <<>> >>, << <<>> >> >> }

MappedTables(names, maps) ==
  { ObjectTable(h, r, m) :
      h \in SeqsUpTo(MappedKeys, names) \cup { UndefinedRow },
      r \in MappedRowsGiven,
      m \in SeqsUpTo(MappedRowObjects, maps) \cup { UndefinedMaps } }

InitMapped ==
  /\ pc = "stringify"
  /\ table \in MappedTables(MaxHeader, MaxMappedRows) \cup { PrimitiveTable, NullTable }
  /\ soptions \in { [DefaultStringifyOptions EXCEPT !.trimEmpty = b] : b \in BOOLEAN }
  /\ options = DefaultParseOptions
  /\ text = NoValue
  /\ csv = NoValue
  /\ index = 0
  /\ aggregator = NoValue
  /\ step = NoStep
  /\ result = NoValue
  /\ given = NoValue
  /\ out = NoValue
  /\ out2 = NoValue
  /\ emitted = NoValue
  /\ cell = NoValue
  /\ cellOut = NoValue

SpecMapped == InitMapped /\ [][Stringify]_vars

\* the properties of the object stringify was called with, defaults applied
TableHeader == IF table.header = UndefinedRow THEN <<>> ELSE table.header
TableMappedRows == IF table.mappedRows = UndefinedMaps THEN <<>> ELSE table.mappedRows

\* the call rebuilt the rows from the mapped rows
Rebuilt == Len(given) = 1 /\ Len(TableMappedRows) > 0

\* the value a mapped row holds for a name, the empty string if it has none
ValueFor(map, name) ==
  IF \E i \in 1..Len(map) : map[i].key = name
    THEN map[CHOOSE i \in 1..Len(map) : map[i].key = name].value
  ELSE <<>>

\* C21: when stringify is given an object with no rows and some mapped
\* rows, the body row it emits for a mapped row holds, at each position of
\* the header, the mapped row's value for the name at that position, or the
\* empty string when the mapped row has no such name (trimEmpty leaves out
\* only rows and columns where all of these are empty); when the object has
\* rows, the rows are emitted and the text is the one the call gives without
\* the mapped rows.
C21_RowsFromMappedRows ==
  (Stringified /\ table.type = "object") =>
    LET rows == emitted.rows
        n == emitted.maxCellCount
        header == TableHeader
        maps == TableMappedRows
    IN  /\ Rebuilt =>
              /\ Len(rows) <= 1 + Len(maps)
              /\ n <= Len(header)
              /\ \A r \in 2..Len(rows) : \A c \in 1..n :
                   rows[r][c] = ValueFor(maps[r - 1], header[c])
              /\ \A r \in 1..Len(maps) : \A c \in 1..Len(header) :
                   (r + 1 > Len(rows) \/ c > n) => ValueFor(maps[r], header[c]) = <<>>
              /\ ~soptions.trimEmpty => /\ Len(rows) = 1 + Len(maps)
                                        /\ n = Len(header)
        /\ ~Rebuilt =>
              /\ \A r \in 1..Len(rows) : \A c \in 1..n :
                   rows[r][c] = IF c <= Len(given[r]) THEN given[r][c] ELSE <<>>
              /\ out = stringify(ObjectTable(given[1], Tail(given), <<>>), soptions).out

C21_Witness ==
  /\ Stringified
  /\ table = ObjectTable(<< <<"a">>, <<"b">> >>, <<>>,
                         << << [key |-> <<"b">>, value |-> <<"x">>] >>,
                            << [key |-> <<"b">>, value |-> <<>>],
                               [key |-> <<"a">>, value |-> <<"x">>] >> >>)
  /\ out = <<"a", Comma, "b", LF, Comma, "x", LF, "x", Comma>>

\* C22: stringify leaves its argument as it was: when the call has returned,
\* the header and every row of the caller's table hold the cells they held
\* at the call, with and without trimEmpty.
C22_ArgumentUnchanged ==
  Stringified => GivenRows(table) = given

----------------------------------------------------------------------------
(* Line break runs: texts of carriage returns, line feeds and one other    *)
(* character, under both line break policies.                              *)

MaxBreaks == 5         \* longest text of a line break run

BreakAlphabet == {CR, LF, "a"}

BreakOptions ==
  { [DefaultParseOptions EXCEPT !.forceLineFeedAfterCarriageReturn = f,
                                !.ignoreLinefeedBeforeEOF = e] : f, e \in BOOLEAN }

InitLinebreaks ==
  /\ pc = "parse"
  /\ text \in SeqsUpTo(BreakAlphabet, MaxBreaks)
  /\ options \in BreakOptions
  /\ Idle

SpecLinebreaks == InitLinebreaks /\ [][Next]_vars

\* the characters at i and i + 1 of the text are a carriage return and a
\* line feed, in this order or the other
BreakPair(i) ==
  /\ i >= 1
  /\ i < Len(text)
  /\ {text[i], text[i + 1]} = {CR, LF}

\* the first position of the longest stretch ending at i in which every two
\* neighbours are such a pair
StretchStart(i) ==
  CHOOSE a \in 1..i : /\ \A j \in a..(i - 1) : BreakPair(j)
                      /\ ~BreakPair(a - 1)

\* the character at i is the second character of a line break group
SecondOfGroup(i) ==
  IF options.forceLineFeedAfterCarriageReturn
    THEN i > 1 /\ text[i - 1] = CR /\ text[i] = LF
  ELSE (i - StretchStart(i)) % 2 = 1

\* the text with every line break group read from the left replaced by one
\* line feed
Normalized ==
  Join([i \in 1..Len(text) |->
          IF SecondOfGroup(i) THEN <<>>
          ELSE IF text[i] = CR THEN <<LF>>
          ELSE <<text[i]>>], <<>>)

\* C23: the text is normalized in one pass from the left: under the strict
\* policy every carriage return with a line feed after it, and every other
\* carriage return, becomes one line feed (a line feed then a carriage return
\* gives two); under the loose policy a line feed with a carriage return
\* after it is one break as well, the groups being taken from the left, so
\* that carriage return, line feed, carriage return gives two line feeds,
\* and what has been replaced is not read again.
C23_LineBreakGroups ==
  (pc \in {"tokenize", "parsed"}) =>
    LET ending == IF options.ignoreLinefeedBeforeEOF /\ EndsWith(Normalized, LF)
                    THEN <<>> ELSE <<LF>>
    IN  /\ csv = Normalized \o ending
        /\ ~Includes(csv, CR)
        /\ (options.forceLineFeedAfterCarriageReturn /\ text = <<LF, CR>>)
             => Normalized = <<LF, LF>>
        /\ (~options.forceLineFeedAfterCarriageReturn /\ text = <<LF, CR>>)
             => Normalized = <<LF>>
        /\ text = <<CR, LF, CR>> => Normalized = <<LF, LF>>
        /\ text = <<CR, CR, LF>> => Normalized = <<LF, LF>>

C23_Witness ==
  /\ pc = "parsed"
  /\ ~options.forceLineFeedAfterCarriageReturn
  /\ ~options.ignoreLinefeedBeforeEOF
  /\ text = <<"a", CR, LF, CR, "a">>
  /\ csv = <<"a", LF, LF, "a", LF>>

----------------------------------------------------------------------------
(* Default runs: parse(csv) without options                                *)

MaxDefaultLen == 4     \* longest text of a default run

InitDefault ==
  /\ pc = "parse"
  /\ text \in SeqsUpTo(Alphabet, MaxDefaultLen)
  /\ options = DefaultParseOptions
  /\ Idle

SpecDefault == InitDefault /\ [][Next]_vars

----------------------------------------------------------------------------
(* Header runs: texts whose header names may be array indices or repeated  *)

MaxHeaderText == 6     \* longest text of a header run

HeaderAlphabet == {LF, Comma, "a", "1"}

InitHeaders ==
  /\ pc = "parse"
  /\ text \in SeqsUpTo(HeaderAlphabet, MaxHeaderText)
  /\ options = DefaultParseOptions
  /\ Idle

SpecHeaders == InitHeaders /\ [][Next]_vars

\* the keys of an object in the order Object.keys lists them
KeysInOrder(hashMap) == [i \in 1..Len(hashMap) |-> hashMap[i].key]

\* the positions of the header holding the first occurrence of a name
FirstOccurrences(header) ==
  { i \in 1..Len(header) : \A j \in 1..(i - 1) : header[j] # header[i] }

\* the names of the header in header order, each at its first occurrence
RECURSIVE NamesFrom(_, _)
NamesFrom(header, i) ==
  IF i > Len(header) THEN <<>>
  ELSE (IF i \in FirstOccurrences(header) THEN <<header[i]>> ELSE <<>>)
         \o NamesFrom(header, i + 1)

\* C25: in every mapped row of a body row that has a cell for every header
\* position, each header name is a key, its value is the cell at the last
\* position where the header holds that name, and the keys are listed in
\* header order.
C25_DuplicateNames ==
  pc = "parsed" =>
    \A r \in 1..Len(result.rows) :
      Len(result.rows[r]) = Len(result.header) =>
        /\ \A i \in 1..Len(result.header) :
             LET last == CHOOSE j \in i..Len(result.header) :
                           /\ result.header[j] = result.header[i]
                           /\ \A k \in (j + 1)..Len(result.header) :
                                result.header[k] # result.header[i]
             IN  /\ HasOwnProperty(result.mappedRows[r], result.header[i])
                 /\ GetProperty(result.mappedRows[r], result.header[i]) = result.rows[r][last]
        /\ KeysInOrder(result.mappedRows[r]) = NamesFrom(result.header, 1)

\* the stringify call is over, by returning or by throwing
StringifyOver == pc \in {"parse", "error"} /\ out # NoValue

\* C26: stringify called with a value that is neither an array nor an
\* object (a number, a string, a boolean, null, undefined) throws; it does
\* not return a string.
C26_InvalidInputRaises ==
  (StringifyOver /\ table.type \notin {"array", "object"}) => out = TypeError

----------------------------------------------------------------------------
(* The table under construction *)

\* C27: while the text is tokenized the table has at least one row and
\* every row has at least one cell, whatever characters have been read; and
\* the header parse returns has at least one cell.
C27_NoEmptyRow ==
  /\ pc = "tokenize" =>
       /\ Len(aggregator.array) >= 1
       /\ \A r \in 1..Len(aggregator.array) : Len(aggregator.array[r]) >= 1
  /\ pc = "parsed" =>
       /\ result.header # UndefinedRow
       /\ Len(result.header) >= 1
       /\ \A r \in 1..Len(result.rows) : Len(result.rows[r]) >= 1

C27_Witness ==
  /\ pc = "parsed"
  /\ options = DefaultParseOptions
  /\ text = <<Comma, LF, LF>>
  /\ result.header = << <<>> >>
  /\ result.rows = << << <<>> >> >>

----------------------------------------------------------------------------
(* The committed parser state *)

CommittedStates == {"empty", "unsettled", "unquoted", "open", "waiting", "closed"}

\* C28: whenever a character is about to be read, the parser state is one
\* of empty, unsettled, unquoted, open, waiting, closed, never finished or
\* discarded: a step that ends a cell (its next state is finished or
\* discarded, or the taint adjustment forces finished) leaves the state
\* empty unless it read the last character, and no other step leaves a
\* state outside the six.
C28_CommittedStates ==
  pc = "tokenize" =>
    /\ index < Len(csv) => aggregator.parserState \in CommittedStates
    /\ step.n > 0 =>
         /\ step.parserState \in CommittedStates
         /\ (step.looked \in {"finished", "discarded"} \/ step.forced) =>
              aggregator.parserState = IF step.n < Len(csv) THEN "empty" ELSE "finished"
         /\ (step.looked \notin {"finished", "discarded"} /\ ~step.forced) =>
              /\ aggregator.parserState = step.looked
              /\ aggregator.parserState \in CommittedStates \ {"empty"}

C28_Witness ==
  /\ pc = "tokenize"
  /\ step.looked = "discarded"
  /\ step.n > 1
  /\ index < Len(csv)
  /\ aggregator.parserState = "empty"
  /\ Len(aggregator.array) = 3

----------------------------------------------------------------------------
(* Classification and reduction *)

CharacterClasses == {"linefeed", "quote", "separator", "space", "other"}

\* the classes of the last character read, as a set
ClassSet == { step.characterClasses[i] : i \in 1..Len(step.characterClasses) }

\* C29: every character read gets at least one class; a line feed gets the
\* class linefeed alone, another character the classes quote, separator and
\* space it qualifies for, or other alone if none; and the reduced class is
\* one of the six: the class itself when there is one, quote for space with
\* quote, separator for space with separator, quoteSeparator for quote with
\* separator, with or without space.
C29_ClassifyAndReduce ==
  step.n > 0 =>
    /\ Len(step.characterClasses) >= 1
    /\ Cardinality(ClassSet) = Len(step.characterClasses)
    /\ ClassSet \subseteq CharacterClasses
    /\ "linefeed" \in ClassSet <=> step.character = LF
    /\ "linefeed" \in ClassSet => ClassSet = {"linefeed"}
    /\ "other" \in ClassSet => ClassSet = {"other"}
    /\ step.character # LF =>
         /\ "quote" \in ClassSet <=> <<step.character>> = aggregator.quote
         /\ "separator" \in ClassSet <=> Includes(aggregator.separators, <<step.character>>)
         /\ "space" \in ClassSet <=> step.character = space
    /\ step.reducedClass \in ReducedClasses
    /\ Cardinality(ClassSet) = 1 => ClassSet = {step.reducedClass}
    /\ ClassSet = {"space", "quote"} => step.reducedClass = "quote"
    /\ ClassSet = {"space", "separator"} => step.reducedClass = "separator"
    /\ {"quote", "separator"} \subseteq ClassSet => step.reducedClass = "quoteSeparator"

C29_Witness ==
  /\ step.n > 0
  /\ ClassSet = {"quote", "separator", "space"}
  /\ step.reducedClass = "quoteSeparator"
  /\ step.parserState = "open"

----------------------------------------------------------------------------
(* The closed state *)

\* the space character is the quote or one of the separators in effect
SpaceIsSpecial ==
  \/ aggregator.quote = <<space>>
  \/ Includes(aggregator.separators, <<space>>)

\* C30: when the quote or a separator is the space character, no character
\* is reduced to the class space and the parser state is never closed:
\* neither the state a character is read in, nor the state the table gives,
\* nor the state committed.
C30_ClosedUnreachable ==
  (pc \in {"tokenize", "parsed"} /\ SpaceIsSpecial) =>
    /\ aggregator.parserState # "closed"
    /\ step.parserState # "closed"
    /\ step.looked # "closed"
    /\ step.reducedClass # "space"

C30_Witness ==
  /\ pc = "tokenize"
  /\ SpaceIsSpecial
  /\ step.parserState = "waiting"
  /\ step.character = space
  /\ step.reducedClass = "separator"
  /\ step.looked = "finished"

----------------------------------------------------------------------------
(* The line taint *)

\* a cell is about to start: nothing has been read, or the last step ended
\* a cell
CellStart == pc = "tokenize" /\ aggregator.parserState = "empty"

\* the cell about to start is the first of its row
RowStart == CellStart /\ step.delimiter = "none"

\* C31: the line taint is none whenever a row starts, and at the start of a
\* cell it is other than none exactly when the taint adjustment is in effect
\* and an earlier cell of the same row was ended by a separator (quote or
\* not) read in the waiting or closed state.
C31_TaintScopedToRow ==
  /\ RowStart => aggregator.lineTaint = "none"
  /\ CellStart =>
       (aggregator.lineTaint # "none"
          <=> (aggregator.taintQuoteSeparatorLines /\ step.closedQuoted))
  /\ pc = "tokenize" => aggregator.lineTaint \in {"none", "inactive", "active"}
  /\ (pc = "tokenize" /\ ~aggregator.taintQuoteSeparatorLines) =>
       aggregator.lineTaint = "none"

C31_Witness ==
  /\ CellStart
  /\ aggregator.taintQuoteSeparatorLines
  /\ step.closedQuoted
  /\ step.parserState = "closed"
  /\ step.reducedClass = "quoteSeparator"
  /\ aggregator.lineTaint = "active"
  /\ Len(aggregator.array) = 1

----------------------------------------------------------------------------
(* What a step does to the table *)

\* one call of the reducer that returned
TokenizeStep ==
  /\ pc = "tokenize"
  /\ pc' = "tokenize"
  /\ index' = index + 1

\* the characters of all cells of a table, in order
AllCharacters(array) ==
  Join([r \in 1..Len(array) |-> Join(array[r], <<>>)], <<>>)

IsPrefix(s, t) == Len(s) <= Len(t) /\ SubSeq(t, 1, Len(s)) = s

\* C32: in the empty state the cell under construction is the empty string;
\* a cell that a step removes from the table holds no character, and the
\* characters the table holds after a step are those it held before,
\* followed by any the step appended.
C32_NothingLost ==
  /\ [](CellStart => LastCell = <<>>)
  /\ [][TokenizeStep =>
          /\ \A r \in 1..Len(aggregator.array) :
               /\ r <= Len(aggregator'.array)
               /\ \A c \in 1..Len(aggregator.array[r]) :
                    \/ c <= Len(aggregator'.array[r])
                    \/ /\ aggregator.array[r][c] = <<>>
                       /\ aggregator.parserState = "empty"
                       /\ step'.looked = "discarded"
          /\ IsPrefix(AllCharacters(aggregator.array), AllCharacters(aggregator'.array))]_vars

C32_Witness ==
  /\ pc = "tokenize"
  /\ text = <<"a", Comma, LF, "a">>
  /\ step.n = 3
  /\ step.looked = "discarded"
  /\ aggregator.array = << << <<"a">> >>, << <<>> >> >>

----------------------------------------------------------------------------
(* The text handed to the tokenizer *)

\* parse has preprocessed the text
Preprocessed == pc \in {"tokenize", "parsed"}

\* C33: the text the tokenizer reads ends with a line feed and holds neither
\* a carriage return nor a NUL character, whatever the text given and the
\* options.
C33_PreprocessedText ==
  Preprocessed =>
    /\ csv # <<>>
    /\ Last(csv) = LF
    /\ ~Includes(csv, CR)
    /\ ~Includes(csv, NUL)

C33_Witness ==
  /\ pc = "tokenize"
  /\ text = <<CR, NUL, "a">>
  /\ ~options.forceLineFeedAfterCarriageReturn
  /\ options.ignoreLinefeedBeforeEOF
  /\ csv = <<LF, "a", LF>>

\* the text with every NUL character replaced by a character that is not
\* special
NulAsOther == [i \in 1..Len(text) |-> IF text[i] = NUL THEN "b" ELSE text[i]]

\* C34: the NUL characters are removed after the line break groups are
\* replaced and after the line feed before the end is decided on: the text
\* read by the tokenizer is the one read for the same text with another
\* character in place of every NUL, without those characters.  A NUL between
\* a carriage return and a line feed leaves two line feeds, and after a text
\* that ends with a line feed and a NUL one more line feed is appended.
C34_NulRemovedLast ==
  Preprocessed =>
    /\ csv = SelectSeq(Preprocess(NulAsOther, options.forceLineFeedAfterCarriageReturn,
                                  options.ignoreLinefeedBeforeEOF),
                       LAMBDA c : c # "b")
    /\ text = <<CR, NUL, LF>> =>
         csv = <<LF, LF>> \o (IF options.ignoreLinefeedBeforeEOF THEN <<>> ELSE <<LF>>)
    /\ (Len(text) >= 2 /\ text[Len(text) - 1] = LF /\ Last(text) = NUL) =>
         /\ csv = Preprocess(Front(text), options.forceLineFeedAfterCarriageReturn, FALSE)
         /\ Len(csv) >= 2
         /\ csv[Len(csv) - 1] = LF

C34_Witness ==
  /\ pc = "parsed"
  /\ options = DefaultParseOptions
  /\ text = <<"a", LF, NUL>>
  /\ csv = <<"a", LF, LF>>
  /\ result.rows = << << <<>> >> >>

----------------------------------------------------------------------------
(* The reduce call from start to end *)

MaxEndLen == 3         \* longest text of a run to the end

EndOptions ==
  { [DefaultParseOptions EXCEPT !.ignoreLinefeedBeforeEOF = e] : e \in BOOLEAN }

InitToEnd ==
  /\ pc = "parse"
  /\ text \in SeqsUpTo(TokenAlphabet, MaxEndLen)
  /\ options \in EndOptions
  /\ Idle

\* Array.prototype.reduce calls the reducer for each element in turn and
\* returns: every step that can be taken is taken.
SpecToEnd == InitToEnd /\ [][Next]_vars /\ WF_vars(Next)

\* C35: the reducer is called once for each character of the preprocessed
\* text, in order, and the call then returns; when the last character has
\* been read the parser state is finished or open.
C35_OneStepPerCharacter ==
  /\ [](pc = "tokenize" => /\ index <= Len(csv)
                           /\ step.n = index)
  /\ [][TokenizeStep => /\ index < Len(csv)
                        /\ step'.n = index + 1
                        /\ step'.character = csv[index + 1]
                        /\ csv' = csv]_vars
  /\ []((pc \in {"tokenize", "parsed"} /\ index = Len(csv)) =>
          aggregator.parserState \in {"finished", "open"})
  /\ [](pc = "parsed" => /\ index = Len(csv)
                         /\ step.n = Len(csv))
  /\ <>(pc = "parsed")

C35_Witness ==
  /\ pc = "parsed"
  /\ text = <<DQ, LF, "a">>
  /\ options = DefaultParseOptions
  /\ step.n = 4
  /\ aggregator.parserState = "open"

\* C36: a step changes the table at its end only.  Every row before the last
\* and every cell of the last row before its last cell is left as it was;
\* the last cell is extended (by the character read, by the quote, or by
\* both) or, when it is empty, removed; then at most one empty cell is added
\* to the last row or one row holding one empty cell is added to the table.
C36_ChangesAtTheEnd ==
  [][TokenizeStep =>
       LET a == aggregator.array
           b == aggregator'.array
           R == Len(a)
           n == Len(a[R])
           quote == aggregator.quote
           character == <<step'.character>>
       IN  /\ Len(b) \in {R, R + 1}
           /\ \A r \in 1..(R - 1) : b[r] = a[r]
           /\ Len(b[R]) \in {n - 1, n, n + 1}
           /\ \A c \in 1..(n - 1) : b[R][c] = a[R][c]
           /\ Len(b[R]) = n - 1 => a[R][n] = <<>>
           /\ Len(b[R]) >= n =>
                \E added \in {<<>>, character, quote, character \o quote} :
                  b[R][n] = a[R][n] \o added
           /\ Len(b[R]) = n + 1 => /\ b[R][n + 1] = <<>>
                                   /\ b[R][n] = a[R][n]
                                   /\ Len(b) = R
           /\ Len(b) = R + 1 => b[R + 1] = << <<>> >>]_vars

C36_Witness ==
  /\ pc = "tokenize"
  /\ options = DefaultParseOptions
  /\ text = <<"a", LF, "a", Comma>>
  /\ step.n = 4
  /\ aggregator.array = << << <<"a">> >>, << <<"a">>, <<>> >> >>

----------------------------------------------------------------------------
(* Round trips of rectangular tables of non-empty cells, default options. *)

MaxRectRows == 2       \* most rows of a rectangular table
MaxRectCols == 2       \* most cells of a row of a rectangular table
MaxRectChars == 4      \* most characters of a rectangular table

RectAlphabet == {LF, DQ, Comma, space, "a"}

\* the non-empty strings of exactly k characters
RECURSIVE RectCellsOf(_)
RectCellsOf(k) ==
  IF k = 1 THEN { <<x>> : x \in RectAlphabet }
  ELSE { Append(s, x) : s \in RectCellsOf(k - 1), x \in RectAlphabet }

\* the lists of m non-empty cells holding exactly k characters
RECURSIVE RectCellLists(_, _)
RectCellLists(m, k) ==
  IF m = 0 THEN (IF k = 0 THEN { <<>> } ELSE {})
  ELSE UNION { { <<x>> \o l : x \in RectCellsOf(j), l \in RectCellLists(m - 1, k - j) }
               : j \in 1..(k - (m - 1)) }

\* the tables of n rows of c non-empty cells holding at most chars characters
RectTables(n, c, chars) ==
  { [r \in 1..n |-> [j \in 1..c |-> l[(r - 1) * c + j]]] :
      l \in UNION { RectCellLists(n * c, k) : k \in (n * c)..chars } }

InitRectangular ==
  /\ pc = "stringify"
  /\ table \in { ArrayTable(t) :
                   t \in UNION { RectTables(n, c, MaxRectChars) :
                                   n \in 1..MaxRectRows, c \in 1..MaxRectCols } }
  /\ soptions = DefaultStringifyOptions
  /\ options = DefaultParseOptions
  /\ text = NoValue
  /\ csv = NoValue
  /\ index = 0
  /\ aggregator = NoValue
  /\ step = NoStep
  /\ result = NoValue
  /\ given = NoValue
  /\ out = NoValue
  /\ out2 = NoValue
  /\ emitted = NoValue
  /\ cell = NoValue
  /\ cellOut = NoValue

SpecRectangular == InitRectangular /\ [][NextRoundTrip]_vars

\* one row or more, all rows of the same non-zero length
Rectangular(rows) ==
  /\ Len(rows) >= 1
  /\ Len(rows[1]) >= 1
  /\ \A r \in 1..Len(rows) : Len(rows[r]) = Len(rows[1])

\* C37: under default options, for a rectangular table in which every cell
\* is a non-empty string without carriage return or NUL (quotes, separators,
\* line feeds and spaces allowed), parse(stringify(T)) gives T's first row
\* as header and T's other rows as rows.
C37_RoundTripRectangular ==
  (/\ pc = "parsed"
   /\ soptions = DefaultStringifyOptions
   /\ options = DefaultParseOptions
   /\ Rectangular(given)
   /\ AllCells(given, LAMBDA x : x # <<>>)
   /\ NoCarriageReturnOrNul(given)) =>
    /\ result.header = given[1]
    /\ result.rows = Tail(given)

C37_Witness ==
  /\ pc = "parsed"
  /\ given = << << <<DQ>>, <<Comma>> >>, << <<LF>>, <<space>> >> >>
  /\ text = <<DQ, DQ, DQ, DQ, Comma, DQ, Comma, DQ, LF, DQ, LF, DQ, Comma, space>>
  /\ result.header = << <<DQ>>, <<Comma>> >>
  /\ result.rows = << << <<LF>>, <<space>> >> >>

----------------------------------------------------------------------------
(* Trimming runs: lines 387-412 of stringify, one loop round per step.     *)
(* emitted holds allRows and maxCellCount as the loops have left them,     *)
(* table the caller's rows (splice changes them in place), given the rows  *)
(* the call was made with.                                                 *)

MaxTrimRows == 2       \* most rows of a trimming run
MaxTrimCols == 2       \* most cells of a row of a trimming run

\* the row loop that pops only rows without cells
RowLoopConditionNoCells(allRows) ==
  Len(allRows) > 0 /\ Len(Last(allRows)) = 0

\* Line 396: allRows.length > 0 && allRows[allRows.length - 1].every(...)
RowLoopCondition(allRows) ==
  Len(allRows) > 0 /\ EveryCellEmpty(Last(allRows))

\* Line 400: maxCellCount.length >= 0 && allRows.every(...)
ColumnLoopCondition(allRows, n) ==
  n >= 0 /\ \A r \in 1..Len(allRows) : CellEmptyOrAbsent(allRows[r], n)

TrimTables(rows, cols) ==
  { t \in SeqsUpTo(SeqsUpTo(StringifyCells, cols), rows) : Len(t) >= 1 }

InitTrim ==
  /\ pc = "stringify"
  /\ table \in { ArrayTable(t) : t \in TrimTables(MaxTrimRows, MaxTrimCols) }
  /\ soptions \in { [DefaultStringifyOptions EXCEPT !.lineEndBeforeEOF = e] : e \in BOOLEAN }
  /\ options = DefaultParseOptions
  /\ text = NoValue
  /\ csv = NoValue
  /\ index = 0
  /\ aggregator = NoValue
  /\ step = NoStep
  /\ result = NoValue
  /\ given = GivenRows(table)
  /\ out = NoValue
  /\ out2 = NoValue
  /\ emitted = NoValue
  /\ cell = NoValue
  /\ cellOut = NoValue

\* Lines 363-395: allRows, maxCellCount and the test of trimEmpty
TrimBegin ==
  /\ pc = "stringify"
  /\ pc' = IF soptions.trimEmpty THEN "rowLoop" ELSE "join"
  /\ emitted' = [rows |-> table.value, maxCellCount |-> MaxLength(table.value)]
  /\ UNCHANGED <<text, options, csv, index, aggregator, step, result, given, table,
                 soptions, out, out2, cell, cellOut>>

\* Lines 396-398: one round of the row loop
PopRow ==
  /\ pc = "rowLoop"
  /\ RowLoopCondition(emitted.rows)
  /\ emitted' = [emitted EXCEPT !.rows = Front(@)]
  /\ UNCHANGED <<pc, text, options, csv, index, aggregator, step, result, given, table,
                 soptions, out, out2, cell, cellOut>>

RowLoopExit ==
  /\ pc = "rowLoop"
  /\ ~RowLoopCondition(emitted.rows)
  /\ pc' = "columnLoop"
  /\ UNCHANGED <<text, options, csv, index, aggregator, step, result, given, table,
                 soptions, out, out2, cell, cellOut, emitted>>

\* Lines 400-403: one round of the column loop
SpliceColumn ==
  /\ pc = "columnLoop"
  /\ ColumnLoopCondition(emitted.rows, emitted.maxCellCount)
  /\ LET spliced == [r \in 1..Len(emitted.rows) |->
                       Splice(emitted.rows[r], emitted.maxCellCount)]
     IN  /\ emitted' = [rows |-> spliced, maxCellCount |-> emitted.maxCellCount - 1]
         /\ table' = ArrayTable(spliced \o SubSeq(table.value, Len(spliced) + 1,
                                                 Len(table.value)))
  /\ UNCHANGED <<pc, text, options, csv, index, aggregator, step, result, given,
                 soptions, out, out2, cell, cellOut>>

ColumnLoopExit ==
  /\ pc = "columnLoop"
  /\ ~ColumnLoopCondition(emitted.rows, emitted.maxCellCount)
  /\ pc' = "join"
  /\ UNCHANGED <<text, options, csv, index, aggregator, step, result, given, table,
                 soptions, out, out2, cell, cellOut, emitted>>

\* Lines 406-412: the lines joined, and the line end before the end of file
JoinLines ==
  /\ pc = "join"
  /\ pc' = "returned"
  /\ LET quote == StringifyQuote(soptions.quote)
         separator == StringifySeparator(soptions.separator)
         lineEnd == StringifyLineEnd(soptions.lineEnd)
         lines == [r \in 1..Len(emitted.rows) |->
                     toCSVLine(emitted.rows[r], quote, separator, emitted.maxCellCount)]
     IN  out' = Join(lines, lineEnd) \o (IF soptions.lineEndBeforeEOF THEN lineEnd ELSE <<>>)
  /\ UNCHANGED <<text, options, csv, index, aggregator, step, result, given, table,
                 soptions, out2, cell, cellOut, emitted>>

NextTrim == TrimBegin \/ PopRow \/ RowLoopExit \/ SpliceColumn \/ ColumnLoopExit \/ JoinLines

\* the loops are synchronous: a round that can run does run
SpecTrim == InitTrim /\ [][NextTrim]_vars /\ WF_vars(NextTrim)

\* every cell of the table is empty, which covers rows without cells
NoContent(rows) == \A r \in 1..Len(rows) : EveryCellEmpty(rows[r])

\* C38: both trimming loops of stringify end (every round of the row loop
\* makes allRows shorter, every round of the column loop makes maxCellCount
\* smaller, which stays at -1 or above), so stringify returns; for a table
\* in which every cell is empty or every row has no cells, trimming removes
\* all rows and the text is empty, followed by one line end when
\* lineEndBeforeEOF is set.
C38_TrimmingTerminates ==
  /\ <>(pc = "returned")
  /\ [][PopRow => Len(emitted'.rows) = Len(emitted.rows) - 1]_vars
  /\ [][SpliceColumn => /\ emitted'.maxCellCount = emitted.maxCellCount - 1
                        /\ emitted'.maxCellCount >= -1]_vars
  /\ []((pc = "returned" /\ soptions.trimEmpty /\ NoContent(given)) =>
          /\ emitted.rows = <<>>
          /\ out = IF soptions.lineEndBeforeEOF THEN <<LF>> ELSE <<>>)

C38_Witness ==
  /\ pc = "returned"
  /\ soptions.trimEmpty
  /\ soptions.lineEndBeforeEOF
  /\ given = << << <<>>, <<>> >>, <<>> >>
  /\ emitted = [rows |-> <<>>, maxCellCount |-> -1]
  /\ out = <<LF>>

----------------------------------------------------------------------------
\* C39: a step that is not the last one of the text calls endCell exactly
\* when it leaves the state finished (looked up, forced at the end of a
\* tainted row, or set by discardCell); the character it read is then
\* classified as a separator or as a line feed.  On a separator the finished
\* row is kept as it is and gets a new empty last cell; on a line feed the
\* table gets a new last row of one empty cell.  Either way the state is
\* empty afterwards and the new last cell is not the cell that was finished.
C39_FinishedOpensCellOrRow ==
  [][TokenizeStep =>
       LET a == aggregator.array
           b == aggregator'.array
           R == Len(a)
           classes == step'.characterClasses
           finished == step'.looked \in {"finished", "discarded"} \/ step'.forced
           notLast == index' # Len(csv)
       IN  /\ (finished /\ notLast) <=> step'.ended
           /\ step'.ended <=> aggregator'.parserState = "empty"
           /\ step'.ended =>
                /\ Includes(classes, "separator") \/ Includes(classes, "linefeed")
                /\ Includes(classes, "separator") =>
                     b = [a EXCEPT ![R] = Append(@, <<>>)]
                /\ Includes(classes, "linefeed") =>
                     /\ Len(b) = R + 1
                     /\ b[R + 1] = << <<>> >>
                     /\ Len(b[R]) >= 1
                /\ Last(Last(b)) = <<>>]_vars

C39_Witness ==
  /\ pc = "tokenize"
  /\ options.quote = StringValue(<<Comma>>)
  /\ text = <<"a", Comma, "a">>
  /\ step.n = 2
  /\ step.parserState = "unquoted"
  /\ step.reducedClass = "quoteSeparator"
  /\ step.looked = "finished"
  /\ step.ended
  /\ aggregator.parserState = "empty"
  /\ aggregator.array = << << <<"a">>, <<>> >> >>

====
